---- MODULE Spec2Model ----
(***************************************************************************)
(* Transcript acquisition pipeline of focuslearn-backend.                  *)
(*                                                                         *)
(* Two versions of fetchTranscript live in the repository:                 *)
(*   "s3"    src/services/transcriptService.js  (object-storage pipeline,  *)
(*           the outer catch runs the Whisper fallback)                    *)
(*   "local" src/unnamed/part_000               (NODE_ENV production check,*)
(*           the outer catch ends the call)                                *)
(* and two versions of extractAudio live in src/utils/audioExtractor.js:   *)
(*   "objstore" lines 58-196  (temp dir, uploads the mp3 and the chunks)   *)
(*   "tmp"      lines 282-373 (/tmp, uploads the chunks)                   *)
(*                                                                         *)
(* Times reported by the speech-to-text service are JavaScript numbers in  *)
(* seconds; the model keeps them in tenths of a second (582 = 58.2 s), so  *)
(* the code's "* 1000" to milliseconds is "* 100" here.  Confidence values *)
(* are kept in tenths as well (avg_logprob -0.4 is -4).  A text is a       *)
(* sequence of characters, each written as a one-element string.           *)
(***************************************************************************)
EXTENDS Integers, Sequences, FiniteSets, TLC

\* ------------------------------------------------------------------ bounds
NumCallers == 2
MaxChunks == 2

\* ------------------------------------------------------- program constants
maxRetries == 3
cleanupMaxRetries == 3
NominalChunk == 600
LogProbMin == -4
NoSpeechMax == 4
SegmentTimeObjstore == 300
SegmentTimeTmp == 600

Callers == 1..NumCallers
Videos == {"abc123", "xyz789"}
PreferredLangs == {"fr"}
fallbackLangsReordered == <<"en", "hi", "ta">>
fallbackLangs == <<"ta", "hi", "en">>
Impls == {"s3", "local"}

None == "none"
NoTranscript == <<>>

\* What Transcript.findOne resolves with: a document, or null.
NoRecord == [present |-> FALSE, transcript |-> <<>>]
Record(transcript) == [present |-> TRUE, transcript |-> transcript]

\* A document of the Transcript collection.
Document(videoId, transcript) == [videoId |-> videoId, transcript |-> transcript]

Min(a, b) == IF a < b THEN a ELSE b

\* ------------------------------------------------------- caption collaborator
\* What YoutubeTranscript.fetchTranscript(videoId, {lang}) resolves with when
\* the track exists: items carrying text, offset, duration and the language.
CaptionItems(videoId, lang) ==
  << [text |-> <<lang>>, offset |-> 0, duration |-> 1500, lang |-> lang],
     [text |-> <<videoId, lang>>, offset |-> 1500, duration |-> 2000, lang |-> lang] >>

\* The results one caption call can have: the track, an empty track, or a
\* rejection (no track in that language).
CaptionOutcomes == {"track", "empty", "error"}

\* transcript.map(item => ({text, offset, duration}))
FormatCaptionSeconds(items) ==
  [i \in 1..Len(items) |->
     [text |-> items[i].text,
      offset |-> items[i].offset \div 1000,
      duration |-> items[i].duration \div 1000]]

FormatCaption(items) ==
  [i \in 1..Len(items) |->
     [text |-> items[i].text, offset |-> items[i].offset, duration |-> items[i].duration]]

\* The language of the k-th caption call (k = 0 is the caller's language).
LangAt(lang, k) == IF k = 0 THEN lang ELSE fallbackLangs[k]

\* ------------------------------------------------ speech-to-text collaborator
Seg(t, s, e, lp, nsp) ==
  [text |-> t, start |-> s, end |-> e, avg_logprob |-> lp, no_speech_prob |-> nsp]

SegHi == Seg(<<"h", "i">>, 0, 30, -2, 1)
SegYo == Seg(<<"y", "o", "u">>, 30, 582, -3, 3)
SegLowProb == Seg(<<"u", "m">>, 35, 40, -4, 1)
SegNoSpeech == Seg(<<"z">>, 40, 50, -1, 4)
SegZeroEnd == Seg(<<"e">>, 0, 0, -1, 0)

\* verbose_json segment lists a transcription call can resolve with; the
\* service reports the segments of a chunk in time order.
SttResponses ==
  { <<SegHi, SegYo>>,
    <<SegHi, SegLowProb, SegNoSpeech>>,
    <<SegLowProb, SegNoSpeech>>,
    <<SegZeroEnd>>,
    <<>> }

\* segment => segment.avg_logprob > -0.4 && segment.no_speech_prob < 0.4
KeepSegmentLoose(segment) ==
  segment.avg_logprob >= LogProbMin /\ segment.no_speech_prob < NoSpeechMax

KeepSegment(segment) ==
  segment.avg_logprob > LogProbMin /\ segment.no_speech_prob < NoSpeechMax

\* transcription.segments.filter(...)
FilterSegments(segments) == SelectSeq(segments, KeepSegment)

\* segments.map(segment => ({text, offset: (start + offset) * 1000,
\*                           duration: (end - start) * 1000}))
StitchSegments(segments, offset) ==
  [i \in 1..Len(segments) |->
     [text |-> segments[i].text,
      offset |-> (segments[i].start + offset) * 100,
      duration |-> (segments[i].end - segments[i].start) * 100]]

\* offset += segments[segments.length - 1]?.end || 60
AdvanceOffsetFrozen(offset, segments) == offset

AdvanceOffset(offset, segments) ==
  IF Len(segments) > 0 /\ segments[Len(segments)].end # 0
    THEN offset + segments[Len(segments)].end
    ELSE offset + NominalChunk

\* --------------------------------------------------------------- refinement
\* fullTranscript.map(item => item.text).join(' ')
RECURSIVE JoinTexts(_)
JoinTexts(texts) ==
  IF Len(texts) = 0 THEN <<>>
  ELSE IF Len(texts) = 1 THEN texts[1]
  ELSE texts[1] \o <<" ">> \o JoinTexts(Tail(texts))

\* A slice that runs to the end of the text.
SliceToEnd(text, from, to) == SubSeq(text, from + 1, Len(text))

\* String.prototype.slice(from, to) for 0 <= from <= to
Slice(text, from, to) == SubSeq(text, from + 1, Min(to, Len(text)))

\* Sum of the text lengths of the first k items.
RECURSIVE LengthBefore(_, _)
LengthBefore(items, k) ==
  IF k = 0 THEN 0 ELSE LengthBefore(items, k - 1) + Len(items[k].text)

\* The re-slice of refinedText onto the items, refinedIndex advancing by
\* each item's original text length.
Reslice(items, refinedText) ==
  [i \in 1..Len(items) |->
     [text |-> Slice(refinedText, LengthBefore(items, i - 1), LengthBefore(items, i)),
      offset |-> items[i].offset,
      duration |-> items[i].duration]]

\* What the text-correction call can do: reject or time out ("error"), give
\* an empty content ("blank"), give the text back ("same"), or give a
\* corrected text that drops the first character ("shorter") or that has
\* one character more at its start ("longer").
RefineOutcomes == {"error", "blank", "same", "shorter", "longer"}

\* refineTranscript: response.choices[0]?.message?.content || rawText, and
\* rawText on any error.
refineTranscriptContentOnly(rawText, outcome) ==
  CASE outcome = "error" -> rawText
    [] outcome = "blank" -> <<>>
    [] outcome = "same" -> rawText
    [] outcome = "shorter" -> Tail(rawText)
    [] outcome = "longer" -> <<"x">> \o rawText

refineTranscript(rawText, outcome) ==
  CASE outcome = "error" -> rawText
    [] outcome = "blank" -> rawText
    [] outcome = "same" -> rawText
    [] outcome = "shorter" -> Tail(rawText)
    [] outcome = "longer" -> <<"x">> \o rawText

\* ------------------------------------------ generateWhisperTranscript, as a function
\* One synthesis run as the orchestrator sees it: whether fetchVideoDetails
\* and extractAudio succeed, what the transcription of each chunk ends with
\* (a segment list, or ChunkFail when the chunk's attempts end in an error),
\* and what the text-correction call does.
ChunkOk(segments) == [ok |-> TRUE, segments |-> segments]
ChunkFail == [ok |-> FALSE, segments |-> <<>>]

\* The runs the orchestrator model draws from: metadata lookup fails,
\* acquisition fails, a chunk's transcription fails, every segment is
\* filtered out, and three runs that return a transcript.
SynthRuns ==
  { [details |-> FALSE, extract |-> FALSE, chunks |-> <<>>, refine |-> "error"],
    [details |-> TRUE, extract |-> FALSE, chunks |-> <<>>, refine |-> "error"],
    [details |-> TRUE, extract |-> TRUE, refine |-> "error",
     chunks |-> <<ChunkOk(<<SegHi, SegYo>>), ChunkFail>>],
    [details |-> TRUE, extract |-> TRUE, refine |-> "error",
     chunks |-> <<ChunkOk(<<SegLowProb, SegNoSpeech>>)>>],
    [details |-> TRUE, extract |-> TRUE, refine |-> "error",
     chunks |-> <<ChunkOk(<<SegHi, SegLowProb, SegNoSpeech>>)>>],
    [details |-> TRUE, extract |-> TRUE, refine |-> "shorter",
     chunks |-> <<ChunkOk(<<SegHi, SegYo>>), ChunkOk(<<SegHi, SegYo>>)>>],
    [details |-> TRUE, extract |-> TRUE, refine |-> "same",
     chunks |-> <<ChunkOk(<<SegLowProb>>), ChunkOk(<<SegZeroEnd>>), ChunkOk(<<SegHi, SegYo>>)>>] }

\* The for-loop over the chunks: fullTranscript and offset after chunk k,
\* or failed as soon as one chunk fails.
RECURSIVE TranscribeChunks(_, _)
TranscribeChunks(chunks, k) ==
  IF k = 0 THEN [failed |-> FALSE, fullTranscript |-> <<>>, offset |-> 0]
  ELSE LET prev == TranscribeChunks(chunks, k - 1) IN
       IF prev.failed \/ ~chunks[k].ok
         THEN [failed |-> TRUE, fullTranscript |-> <<>>, offset |-> 0]
         ELSE LET segments == FilterSegments(chunks[k].segments) IN
              [failed |-> FALSE,
               fullTranscript |-> prev.fullTranscript \o StitchSegments(segments, prev.offset),
               offset |-> AdvanceOffset(prev.offset, segments)]

\* The collaborators a run calls, in the order the code reaches them.
RunCalls(run) ==
  {"videoDetails"}
  \cup (IF run.details THEN {"extractAudio"} ELSE {})
  \cup (IF run.details /\ run.extract THEN {"objectStore", "speechToText"} ELSE {})
  \cup (IF run.details /\ run.extract
           /\ ~TranscribeChunks(run.chunks, Len(run.chunks)).failed
           /\ Len(TranscribeChunks(run.chunks, Len(run.chunks)).fullTranscript) > 0
          THEN {"textCorrection"} ELSE {})

\* rawText: the texts of the items joined with ' '.
RawText(items) == JoinTexts([i \in 1..Len(items) |-> items[i].text])

Threw == [threw |-> TRUE, transcript |-> <<>>]
Returned(transcript) == [threw |-> FALSE, transcript |-> transcript]

\* The run without the check of fullTranscript.length.
generateWhisperTranscriptUnchecked(run) ==
  IF ~run.details \/ ~run.extract THEN Threw
  ELSE LET done == TranscribeChunks(run.chunks, Len(run.chunks)) IN
       IF done.failed THEN Threw
       ELSE Returned(Reslice(done.fullTranscript,
                             refineTranscript(RawText(done.fullTranscript), run.refine)))

\* What generateWhisperTranscript ends with: the transcript it returns, or
\* Threw ('Failed to generate transcript: ...').
generateWhisperTranscript(run) ==
  IF ~run.details \/ ~run.extract THEN Threw
  ELSE LET done == TranscribeChunks(run.chunks, Len(run.chunks)) IN
       IF done.failed \/ Len(done.fullTranscript) = 0 THEN Threw
       ELSE Returned(Reslice(done.fullTranscript,
                             refineTranscript(RawText(done.fullTranscript), run.refine)))

\* ------------------------------------------------------------------- state
VARIABLES
  impl,          \* which fetchTranscript the deployment runs: "s3" or "local"
  isProduction,  \* process.env.NODE_ENV === 'production'
  store,         \* Transcript collection: its documents, oldest first
  pc,            \* where each caller's fetchTranscript call stands
  arg,           \* the call's arguments [videoId, language]
  langIdx,       \* caption calls that have failed so far in the language search
  local,         \* formatted / transcript: the result the call built itself
  result,        \* the transcript the call returned
  outcome,       \* how the call ended: "transcript", "null", "error"
  did,           \* what the call has done: its collaborator calls and events
  after          \* the callers that had returned a transcript for the same
                 \* video when this call started

orchVars == <<impl, isProduction, store, pc, arg, langIdx, local, result, outcome, did, after>>

\* One run of generateWhisperTranscript (src/services/transcriptService.js)
\* with the extractAudio and cleanupAudio of src/utils/audioExtractor.js.
VARIABLES
  extractor,        \* which extractAudio runs: "objstore" or "tmp"
  at,               \* where the run stands
  threw,            \* an error is on its way to the caller
  tempDir,          \* the video's files in extractAudio's temporary directory
  bucket,           \* the video's objects in the S3 bucket
  audioChunks,      \* how many chunk files segmentAudio listed
  chunkKeys,        \* extractAudio's s3Keys: the chunks uploaded so far
  s3Keys,           \* generateWhisperTranscript's s3Keys
  tasks,            \* the preprocess promises: chunk -> pending, done, failed
  preprocessedKeys, \* generateWhisperTranscript's preprocessedKeys
  chunkPos,         \* the chunk the transcription loop is at
  attempts,         \* failed transcription attempts for that chunk
  sttCalls,         \* transcription calls made for the chunk at chunkPos
  sttRetryable,     \* those of them that ended in a rate limit or a timeout
  fullTranscript,   \* the items pushed so far
  offset,           \* the running offset, in tenths of a second
  heard,            \* every segment the successful transcription calls reported
  synth,            \* what the run returned: Returned(transcript), or Threw
  cleanupPos,       \* cleanupAudio: the key it is at
  cleanupAttempts,  \* cleanupAudio: failed delete requests for that key
  finished,         \* the chunks whose preprocess promise has resolved, in that
                    \* order, kept until nothing can depend on it any more
  refined,          \* what refineTranscript was called for and returned
  sttTimeouts,      \* the calls for the chunk at chunkPos that timed out, kept
                    \* while the retry loop of the chunk runs
  wait,             \* the delay the last pass of the retry loop ended with
  abandoned         \* transcription requests that lost the race against the
                    \* timer and have not settled, counted while the loop
                    \* over the chunks runs

synthVars == <<extractor, at, threw, tempDir, bucket, audioChunks, chunkKeys, s3Keys,
               tasks, preprocessedKeys, chunkPos, attempts, sttCalls, sttRetryable,
               fullTranscript, offset, heard, synth, cleanupPos, cleanupAttempts,
               finished, refined, sttTimeouts, wait, abandoned>>

\* The extractAudio calls that share the temporary directory and the bucket
\* (src/utils/audioExtractor.js), each followed by the rest of its
\* generateWhisperTranscript run.
VARIABLES
  disk,     \* the files of the temporary directory, of every video
  objects,  \* the objects of the S3 bucket, of every video
  acq       \* the runs: where each stands and what it holds

acqVars == <<disk, objects, acq>>

vars == <<orchVars, synthVars, acqVars>>

NoArg == [videoId |-> None, language |-> None]

Extractors == {"objstore", "tmp"}
ChunkIds == 1..MaxChunks

File(kind, n) == [kind |-> kind, n |-> n]
Mp3File == File("mp3", 0)
Mp3Object == File("mp3", 0)

NoSynth == [threw |-> FALSE, transcript |-> <<>>]
NoRefined == [outcome |-> None, text |-> <<>>]

\* error.headers?.['retry-after']: absent, or a number of seconds.
NoHint == -1
RetryHints == {NoHint, 0, 7}

\* No setTimeout(resolve, retryAfter), or one of ms milliseconds after an
\* error that carried the hint.
NoWait == [taken |-> FALSE, hint |-> NoHint, ms |-> 0]
Waited(hint, ms) == [taken |-> TRUE, hint |-> hint, ms |-> ms]

\* The runs of the acquisition model.
Runs == {1, 2}

\* A run before extractAudio is called.  downloads counts the yt-dlp calls,
\* produced is the number of chunk files ffmpeg wrote (-1 before it ran),
\* faulted tells that a collaborator of the run failed, and before holds the
\* runs that had ended when this one started.
AcqIdleRun ==
  [url |-> None, videoId |-> None, at |-> "idle", error |-> None, probed |-> FALSE,
   downloads |-> 0, dlResult |-> None, produced |-> -1, audioChunks |-> <<>>,
   s3Keys |-> <<>>, returned |-> <<>>, preprocessedKeys |-> <<>>, faulted |-> FALSE,
   before |-> {}]

\* An empty temporary directory, an empty bucket, no run started.
AcqIdle ==
  /\ disk = {}
  /\ objects = {}
  /\ acq = [r \in Runs |-> AcqIdleRun]

\* The video the synthesis run is for.
RunVideo == "abc123"

\* The run before generateWhisperTranscript is called.
SynthIdle ==
  /\ at = "idle"
  /\ threw = FALSE
  /\ tempDir = {}
  /\ bucket = {}
  /\ audioChunks = 0
  /\ chunkKeys = <<>>
  /\ s3Keys = <<>>
  /\ tasks = [i \in ChunkIds |-> "none"]
  /\ preprocessedKeys = <<>>
  /\ chunkPos = 0
  /\ attempts = 0
  /\ sttCalls = 0
  /\ sttRetryable = 0
  /\ fullTranscript = <<>>
  /\ offset = 0
  /\ heard = <<>>
  /\ synth = NoSynth
  /\ cleanupPos = 0
  /\ cleanupAttempts = 0
  /\ finished = <<>>
  /\ refined = NoRefined
  /\ sttTimeouts = 0
  /\ wait = NoWait
  /\ abandoned = 0

\* The collection as the calls find it: it holds the captions of one video,
\* fetched some time ago, and nothing for the other.
StoredVideo == "xyz789"
StoreAtStart == <<Document(StoredVideo, FormatCaption(CaptionItems(StoredVideo, "en")))>>

\* No caller has called fetchTranscript yet.
OrchIdle ==
  /\ store = StoreAtStart
  /\ pc = [p \in Callers |-> "idle"]
  /\ arg = [p \in Callers |-> NoArg]
  /\ langIdx = [p \in Callers |-> 0]
  /\ local = [p \in Callers |-> NoTranscript]
  /\ result = [p \in Callers |-> NoTranscript]
  /\ outcome = [p \in Callers |-> None]
  /\ did = [p \in Callers |-> {}]
  /\ after = [p \in Callers |-> {}]

\* The "s3" version never reads NODE_ENV.
Init ==
  /\ impl \in Impls
  /\ isProduction \in (IF impl = "local" THEN BOOLEAN ELSE {FALSE})
  /\ extractor = "objstore"
  /\ SynthIdle
  /\ OrchIdle
  /\ AcqIdle

\* ---------------------------------------------------------- Transcript model
\* The documents of the collection with this videoId.
DocsOf(videoId) == SelectSeq(store, LAMBDA d : d.videoId = videoId)

\* Transcript.findOne({ videoId })
findOneMiss(videoId) == NoRecord

findOne(videoId) ==
  IF Len(DocsOf(videoId)) > 0 THEN Record(DocsOf(videoId)[1].transcript) ELSE NoRecord

\* videoId: { type: String, required: true, unique: true }: an insert with
\* a videoId the collection holds is rejected with code 11000.
DuplicateKeyNever(videoId) == FALSE

DuplicateKey(videoId) == Len(DocsOf(videoId)) > 0

\* ---------------------------------------------------------- fetchTranscript
\* return <transcript>
ReturnLocal(p, transcript, events) ==
  /\ pc' = [pc EXCEPT ![p] = "done"]
  /\ result' = [result EXCEPT ![p] = local[p]]
  /\ outcome' = [outcome EXCEPT ![p] = "transcript"]
  /\ local' = [local EXCEPT ![p] = NoTranscript]
  /\ did' = [did EXCEPT ![p] = @ \cup events]

Return(p, transcript, events) ==
  /\ pc' = [pc EXCEPT ![p] = "done"]
  /\ result' = [result EXCEPT ![p] = transcript]
  /\ outcome' = [outcome EXCEPT ![p] = "transcript"]
  /\ local' = [local EXCEPT ![p] = NoTranscript]
  /\ did' = [did EXCEPT ![p] = @ \cup events]

\* The outer catch of the "local" version: null in production, else
\* throw new Error('Failed to fetch or generate transcript').
OuterCatchLocalThrows(p, events) ==
  /\ pc' = [pc EXCEPT ![p] = "done"]
  /\ outcome' = [outcome EXCEPT ![p] = "error"]
  /\ local' = [local EXCEPT ![p] = NoTranscript]
  /\ did' = [did EXCEPT ![p] = @ \cup events]
  /\ UNCHANGED result

OuterCatchLocalNull(p, events) ==
  /\ pc' = [pc EXCEPT ![p] = "done"]
  /\ outcome' = [outcome EXCEPT ![p] = "null"]
  /\ local' = [local EXCEPT ![p] = NoTranscript]
  /\ did' = [did EXCEPT ![p] = @ \cup events]
  /\ UNCHANGED result

OuterCatchLocal(p, events) ==
  /\ pc' = [pc EXCEPT ![p] = "done"]
  /\ outcome' = [outcome EXCEPT ![p] = IF isProduction THEN "null" ELSE "error"]
  /\ local' = [local EXCEPT ![p] = NoTranscript]
  /\ did' = [did EXCEPT ![p] = @ \cup events]
  /\ UNCHANGED result

\* throw new Error('Failed to fetch or generate transcript') out of the
\* Whisper branch: it leaves the "s3" version, and reaches the outer catch
\* of the "local" version.
WhisperFailed(p, events) ==
  IF impl = "s3"
    THEN /\ pc' = [pc EXCEPT ![p] = "done"]
         /\ outcome' = [outcome EXCEPT ![p] = "error"]
         /\ local' = [local EXCEPT ![p] = NoTranscript]
         /\ did' = [did EXCEPT ![p] = @ \cup events]
         /\ UNCHANGED result
    ELSE OuterCatchLocal(p, events)

\* Control after the caption stage found nothing to persist, or (in the
\* "s3" version) after anything thrown inside the outer try block.
EnterFallback(p, events) ==
  /\ pc' = [pc EXCEPT ![p] = "whisper"]
  /\ local' = [local EXCEPT ![p] = NoTranscript]
  /\ did' = [did EXCEPT ![p] = @ \cup events]
  /\ UNCHANGED <<result, outcome>>

\* An error thrown inside the outer try block, before the Whisper branch.
ThrownInTry(p, events) ==
  IF impl = "s3" THEN EnterFallback(p, events) ELSE OuterCatchLocal(p, events)

\* No caption result to persist: 'No public transcript available' is thrown
\* to the outer catch ("s3"); the production check ("local").
NoCaptionsUnchecked(p, events) == EnterFallback(p, events)

NoCaptions(p, events) ==
  IF impl = "local" /\ isProduction
    THEN /\ pc' = [pc EXCEPT ![p] = "done"]
         /\ outcome' = [outcome EXCEPT ![p] = "null"]
         /\ local' = [local EXCEPT ![p] = NoTranscript]
         /\ did' = [did EXCEPT ![p] = @ \cup events]
         /\ UNCHANGED result
    ELSE EnterFallback(p, events)

\* fetchTranscript(videoId, language) up to the end of its first await:
\* Transcript.findOne({ videoId }) and the cache check.
Call(p, videoId, language) ==
  /\ pc[p] = "idle"
  /\ arg' = [arg EXCEPT ![p] = [videoId |-> videoId, language |-> language]]
  /\ after' = [after EXCEPT ![p] =
                 {q \in Callers : /\ pc[q] = "done"
                                  /\ outcome[q] = "transcript"
                                  /\ arg[q].videoId = videoId}]
  /\ IF findOne(videoId).present
       THEN Return(p, findOne(videoId).transcript, {"cacheHit"})
       ELSE /\ pc' = [pc EXCEPT ![p] = "caption"]
            /\ UNCHANGED <<local, result, outcome, did>>
  /\ UNCHANGED <<impl, isProduction, store, langIdx>>
  /\ UNCHANGED <<synthVars, acqVars>>

\* A language search that an empty track does not end.
FetchCaptionSearchesOn(p, res) ==
  /\ pc[p] = "caption"
  /\ LET items == IF res = "track"
                    THEN CaptionItems(arg[p].videoId, LangAt(arg[p].language, langIdx[p]))
                    ELSE <<>>
     IN
     IF res # "track" /\ langIdx[p] < Len(fallbackLangs)
       THEN /\ langIdx' = [langIdx EXCEPT ![p] = @ + 1]
            /\ did' = [did EXCEPT ![p] = @ \cup {"captions"} \cup
                                            (IF res = "empty" THEN {"emptyTrack"} ELSE {})]
            /\ UNCHANGED <<pc, local, result, outcome>>
       ELSE IF res # "error" /\ Len(items) > 0
         THEN /\ pc' = [pc EXCEPT ![p] = "createCaption"]
              /\ local' = [local EXCEPT ![p] = FormatCaption(items)]
              /\ did' = [did EXCEPT ![p] = @ \cup {"captions", "captionTrack"}]
              /\ langIdx' = [langIdx EXCEPT ![p] = 0]
              /\ UNCHANGED <<result, outcome>>
         ELSE /\ NoCaptions(p, IF res = "error" THEN {"captions", "noLanguage"}
                                               ELSE {"captions", "emptyTrack"})
              /\ langIdx' = [langIdx EXCEPT ![p] = 0]
  /\ UNCHANGED <<impl, isProduction, store, arg, after>>
  /\ UNCHANGED <<synthVars, acqVars>>

\* One YoutubeTranscript.fetchTranscript call and what follows it without
\* another await: the next fallback language on a rejection, and after the
\* language search the non-empty check.
FetchCaption(p, res) ==
  /\ pc[p] = "caption"
  /\ LET items == IF res = "track"
                    THEN CaptionItems(arg[p].videoId, LangAt(arg[p].language, langIdx[p]))
                    ELSE <<>>
     IN
     IF res = "error" /\ langIdx[p] < Len(fallbackLangs)
       THEN /\ langIdx' = [langIdx EXCEPT ![p] = @ + 1]
            /\ did' = [did EXCEPT ![p] = @ \cup {"captions"}]
            /\ UNCHANGED <<pc, local, result, outcome>>
       ELSE IF res # "error" /\ Len(items) > 0
         THEN /\ pc' = [pc EXCEPT ![p] = "createCaption"]
              /\ local' = [local EXCEPT ![p] = FormatCaption(items)]
              /\ did' = [did EXCEPT ![p] = @ \cup {"captions", "captionTrack"}]
              /\ langIdx' = [langIdx EXCEPT ![p] = 0]
              /\ UNCHANGED <<result, outcome>>
         ELSE /\ NoCaptions(p, IF res = "error" THEN {"captions", "noLanguage"}
                                               ELSE {"captions", "emptyTrack"})
              /\ langIdx' = [langIdx EXCEPT ![p] = 0]
  /\ UNCHANGED <<impl, isProduction, store, arg, after>>
  /\ UNCHANGED <<synthVars, acqVars>>

\* The transcript a caller returns after a duplicate-key error:
\* (await Transcript.findOne({ videoId })).transcript
RereadKeepsLocal(p) == Record(local[p])

Reread(p) == findOne(arg[p].videoId)

\* Transcript.create({ videoId, transcript: formatted }) after the caption
\* stage.  res: "ok" (written unless the unique index rejects it with code
\* 11000), or "fault" (any other error).
CreateCaption(p, res) ==
  /\ pc[p] = "createCaption"
  /\ IF res = "fault"
       THEN /\ ThrownInTry(p, {"create"})
            /\ UNCHANGED store
       ELSE IF ~DuplicateKey(arg[p].videoId)
         THEN /\ store' = Append(store, Document(arg[p].videoId, local[p]))
              /\ Return(p, local[p], {"create", "write"})
         ELSE /\ pc' = [pc EXCEPT ![p] = "rereadCaption"]
              /\ did' = [did EXCEPT ![p] = @ \cup {"create", "duplicate"}]
              /\ UNCHANGED <<store, local, result, outcome>>
  /\ UNCHANGED <<impl, isProduction, arg, langIdx, after>>
  /\ UNCHANGED <<synthVars, acqVars>>

\* The re-read after a duplicate-key error in the caption stage.
RereadCaptionRaises(p) ==
  /\ pc[p] = "rereadCaption"
  /\ ThrownInTry(p, {})
  /\ UNCHANGED <<impl, isProduction, store, arg, langIdx, after>>
  /\ UNCHANGED <<synthVars, acqVars>>

RereadCaption(p) ==
  /\ pc[p] = "rereadCaption"
  /\ IF Reread(p).present
       THEN Return(p, Reread(p).transcript, {})
       ELSE ThrownInTry(p, {})
  /\ UNCHANGED <<impl, isProduction, store, arg, langIdx, after>>
  /\ UNCHANGED <<synthVars, acqVars>>

\* A run that throws after its first chunk leaves that chunk's items in
\* the store.
WhisperSavesPartial(p, run) ==
  /\ pc[p] = "whisper"
  /\ IF ~generateWhisperTranscript(run).threw
       THEN /\ pc' = [pc EXCEPT ![p] = "createWhisper"]
            /\ local' = [local EXCEPT ![p] = generateWhisperTranscript(run).transcript]
            /\ did' = [did EXCEPT ![p] = @ \cup {"whisper"} \cup RunCalls(run)]
            /\ UNCHANGED <<result, outcome, store>>
       ELSE /\ WhisperFailed(p, {"whisper"} \cup RunCalls(run))
            /\ store' = IF Len(run.chunks) > 0 /\ ~DuplicateKey(arg[p].videoId)
                          THEN Append(store,
                                      Document(arg[p].videoId,
                                               StitchSegments(
                                                 FilterSegments(run.chunks[1].segments), 0)))
                          ELSE store
  /\ UNCHANGED <<impl, isProduction, arg, langIdx, after>>
  /\ UNCHANGED <<synthVars, acqVars>>

\* await generateWhisperTranscript(videoId, language)
Whisper(p, run) ==
  /\ pc[p] = "whisper"
  /\ IF ~generateWhisperTranscript(run).threw
       THEN /\ pc' = [pc EXCEPT ![p] = "createWhisper"]
            /\ local' = [local EXCEPT ![p] = generateWhisperTranscript(run).transcript]
            /\ did' = [did EXCEPT ![p] = @ \cup {"whisper"} \cup RunCalls(run)]
            /\ UNCHANGED <<result, outcome>>
       ELSE WhisperFailed(p, {"whisper"} \cup RunCalls(run))
  /\ UNCHANGED <<impl, isProduction, store, arg, langIdx, after>>
  /\ UNCHANGED <<synthVars, acqVars>>

\* Transcript.create({ videoId, transcript }) after the Whisper run.
CreateWhisper(p, res) ==
  /\ pc[p] = "createWhisper"
  /\ IF res = "fault"
       THEN /\ WhisperFailed(p, {"create"})
            /\ UNCHANGED store
       ELSE IF ~DuplicateKey(arg[p].videoId)
         THEN /\ store' = Append(store, Document(arg[p].videoId, local[p]))
              /\ Return(p, local[p], {"create", "write"})
         ELSE /\ pc' = [pc EXCEPT ![p] = "rereadWhisper"]
              /\ did' = [did EXCEPT ![p] = @ \cup {"create", "duplicate"}]
              /\ UNCHANGED <<store, local, result, outcome>>
  /\ UNCHANGED <<impl, isProduction, arg, langIdx, after>>
  /\ UNCHANGED <<synthVars, acqVars>>

\* The re-read after a duplicate-key error in the Whisper branch.
RereadWhisper(p) ==
  /\ pc[p] = "rereadWhisper"
  /\ IF Reread(p).present
       THEN Return(p, Reread(p).transcript, {})
       ELSE WhisperFailed(p, {})
  /\ UNCHANGED <<impl, isProduction, store, arg, langIdx, after>>
  /\ UNCHANGED <<synthVars, acqVars>>

Next ==
  \E p \in Callers :
    \/ \E v \in Videos, l \in PreferredLangs : Call(p, v, l)
    \/ \E res \in CaptionOutcomes : FetchCaption(p, res)
    \/ \E res \in {"ok", "fault"} : CreateCaption(p, res)
    \/ RereadCaption(p)
    \/ \E run \in SynthRuns : Whisper(p, run)
    \/ \E res \in {"ok", "fault"} : CreateWhisper(p, res)
    \/ RereadWhisper(p)

Spec == Init /\ [][Next]_vars

\* ------------------------------------------------- faults of the store
\* Transcript.findOne rejects (connection lost, server selection timed out):
\* the first await of fetchTranscript throws inside the outer try block.
CallFault(p, videoId, language) ==
  /\ pc[p] = "idle"
  /\ arg' = [arg EXCEPT ![p] = [videoId |-> videoId, language |-> language]]
  /\ after' = [after EXCEPT ![p] =
                 {q \in Callers : /\ pc[q] = "done"
                                  /\ outcome[q] = "transcript"
                                  /\ arg[q].videoId = videoId}]
  /\ ThrownInTry(p, {"lookupFault"})
  /\ UNCHANGED <<impl, isProduction, store, langIdx>>
  /\ UNCHANGED <<synthVars, acqVars>>

\* The re-read after a duplicate-key error in the caption stage rejects.
RereadCaptionFault(p) ==
  /\ pc[p] = "rereadCaption"
  /\ ThrownInTry(p, {"rereadFault"})
  /\ UNCHANGED <<impl, isProduction, store, arg, langIdx, after>>
  /\ UNCHANGED <<synthVars, acqVars>>

\* The re-read after a duplicate-key error in the Whisper branch rejects.
RereadWhisperFault(p) ==
  /\ pc[p] = "rereadWhisper"
  /\ WhisperFailed(p, {"rereadFault"})
  /\ UNCHANGED <<impl, isProduction, store, arg, langIdx, after>>
  /\ UNCHANGED <<synthVars, acqVars>>

\* fetchTranscript with a store whose lookups can fail as well.
NextFaults ==
  \/ Next
  \/ \E p \in Callers :
       \/ \E v \in Videos, l \in PreferredLangs : CallFault(p, v, l)
       \/ RereadCaptionFault(p)
       \/ RereadWhisperFault(p)

SpecFaults == Init /\ [][NextFaults]_vars

\* ================================================================ synthesis
\* One run of generateWhisperTranscript, statement by statement.  Calls to
\* collaborators (metadata, downloader, segmenter, S3, preprocessor, speech
\* to text, text correction) succeed or fail as the environment decides;
\* the files of the temporary directory are state of the program.

SynthInit ==
  /\ impl = "s3"
  /\ isProduction = FALSE
  /\ OrchIdle
  /\ extractor \in Extractors
  /\ SynthIdle
  /\ AcqIdle

\* The segment_time extractAudio gives segmentAudio: 30 s in the "objstore"
\* version, 60 s in the "tmp" version (tenths of a second here).
segmentTime == IF extractor = "objstore" THEN SegmentTimeObjstore ELSE SegmentTimeTmp

\* The keys of the raw and of the preprocessed chunk n.
RawKey(n) == File("raw", n)
PreKey(n) == File("pre", n)
ChunkFile(n) == File("wav", n)

\* generateWhisperTranscript is called: fetchVideoDetails(videoId).  When it
\* rejects, the catch re-throws and the finally finds nothing to clean.
FetchDetails(ok) ==
  /\ at = "idle"
  /\ IF ok
       THEN /\ at' = "preclean"
            /\ UNCHANGED <<threw, synth>>
       ELSE /\ at' = "done"
            /\ threw' = TRUE
            /\ synth' = Threw
  /\ UNCHANGED <<extractor, tempDir, bucket, audioChunks, chunkKeys, s3Keys, tasks,
                 preprocessedKeys, chunkPos, attempts, sttCalls, sttRetryable,
                 fullTranscript, offset, heard, cleanupPos, cleanupAttempts>>
  /\ UNCHANGED <<finished, refined, sttTimeouts, wait, abandoned>>
  /\ UNCHANGED <<orchVars, acqVars>>

\* extractAudio: mkdir, then the unlink of every .wav and .mp3 of the video
\* found in the temporary directory.
PreCleanLocal ==
  /\ at = "preclean"
  /\ tempDir' = {}
  /\ at' = IF extractor = "objstore" THEN "precleanS3" ELSE "download"
  /\ UNCHANGED <<extractor, threw, bucket, audioChunks, chunkKeys, s3Keys, tasks,
                 preprocessedKeys, chunkPos, attempts, sttCalls, sttRetryable,
                 fullTranscript, offset, heard, synth, cleanupPos, cleanupAttempts>>
  /\ UNCHANGED <<finished, refined, sttTimeouts, wait, abandoned>>
  /\ UNCHANGED <<orchVars, acqVars>>

\* extractAudio ("objstore"): ListObjectsV2 under the prefix audio_<videoId>
\* and DeleteObjects of what it lists; a rejection goes to the catch.
PreCleanS3(ok) ==
  /\ at = "precleanS3"
  /\ IF ok
       THEN /\ bucket' = {}
            /\ at' = "download"
            /\ UNCHANGED threw
       ELSE /\ at' = "extractFinally"
            /\ threw' = TRUE
            /\ UNCHANGED bucket
  /\ UNCHANGED <<extractor, tempDir, audioChunks, chunkKeys, s3Keys, tasks,
                 preprocessedKeys, chunkPos, attempts, sttCalls, sttRetryable,
                 fullTranscript, offset, heard, synth, cleanupPos, cleanupAttempts>>
  /\ UNCHANGED <<finished, refined, sttTimeouts, wait, abandoned>>
  /\ UNCHANGED <<orchVars, acqVars>>

\* extractAudio: the yt-dlp download into tempFile and the access check.
Download(ok) ==
  /\ at = "download"
  /\ IF ok
       THEN /\ tempDir' = tempDir \cup {Mp3File}
            /\ at' = IF extractor = "objstore" THEN "uploadMp3" ELSE "segment"
            /\ UNCHANGED threw
       ELSE /\ at' = "extractFinally"
            /\ threw' = TRUE
            /\ UNCHANGED tempDir
  /\ UNCHANGED <<extractor, bucket, audioChunks, chunkKeys, s3Keys, tasks,
                 preprocessedKeys, chunkPos, attempts, sttCalls, sttRetryable,
                 fullTranscript, offset, heard, synth, cleanupPos, cleanupAttempts>>
  /\ UNCHANGED <<finished, refined, sttTimeouts, wait, abandoned>>
  /\ UNCHANGED <<orchVars, acqVars>>

\* extractAudio ("objstore"): PutObject of audio_<videoId>.mp3.
UploadMp3(ok) ==
  /\ at = "uploadMp3"
  /\ IF ok
       THEN /\ bucket' = bucket \cup {Mp3Object}
            /\ at' = "segment"
            /\ UNCHANGED threw
       ELSE /\ at' = "extractFinally"
            /\ threw' = TRUE
            /\ UNCHANGED bucket
  /\ UNCHANGED <<extractor, tempDir, audioChunks, chunkKeys, s3Keys, tasks,
                 preprocessedKeys, chunkPos, attempts, sttCalls, sttRetryable,
                 fullTranscript, offset, heard, synth, cleanupPos, cleanupAttempts>>
  /\ UNCHANGED <<finished, refined, sttTimeouts, wait, abandoned>>
  /\ UNCHANGED <<orchVars, acqVars>>

\* extractAudio: segmentAudio writes n chunk files; when ffmpeg ends it
\* lists them, when ffmpeg fails the files written so far stay behind.  No
\* chunk listed throws 'No audio chunks created'.
Segment(n, ok) ==
  /\ at = "segment"
  /\ tempDir' = tempDir \cup {ChunkFile(i) : i \in 1..n}
  /\ IF ok /\ n > 0
       THEN /\ audioChunks' = n
            /\ at' = "uploadChunk"
            /\ UNCHANGED threw
       ELSE /\ at' = "extractFinally"
            /\ threw' = TRUE
            /\ UNCHANGED audioChunks
  /\ UNCHANGED <<extractor, bucket, chunkKeys, s3Keys, tasks,
                 preprocessedKeys, chunkPos, attempts, sttCalls, sttRetryable,
                 fullTranscript, offset, heard, synth, cleanupPos, cleanupAttempts>>
  /\ UNCHANGED <<finished, refined, sttTimeouts, wait, abandoned>>
  /\ UNCHANGED <<orchVars, acqVars>>

\* extractAudio: the upload of the next chunk, and after the last one the
\* return of the keys.
UploadChunk(ok) ==
  /\ at = "uploadChunk"
  /\ LET n == Len(chunkKeys) + 1 IN
     IF ok
       THEN /\ bucket' = bucket \cup {RawKey(n)}
            /\ chunkKeys' = Append(chunkKeys, n)
            /\ at' = IF n = audioChunks THEN "extractFinally" ELSE "uploadChunk"
            /\ UNCHANGED threw
       ELSE /\ at' = "extractFinally"
            /\ threw' = TRUE
            /\ UNCHANGED <<bucket, chunkKeys>>
  /\ UNCHANGED <<extractor, tempDir, audioChunks, s3Keys, tasks,
                 preprocessedKeys, chunkPos, attempts, sttCalls, sttRetryable,
                 fullTranscript, offset, heard, synth, cleanupPos, cleanupAttempts>>
  /\ UNCHANGED <<finished, refined, sttTimeouts, wait, abandoned>>
  /\ UNCHANGED <<orchVars, acqVars>>

\* The local files extractAudio's finally block removes: tempFile, and in
\* the "objstore" version every .wav of the video as well.
FinallyRemoves(files) ==
  IF extractor = "objstore" THEN files ELSE files \cap {Mp3File}

\* extractAudio's finally block, then its return into
\* generateWhisperTranscript (s3Keys = await extractAudio(videoUrl), and the
\* preprocess promises are created) or its throw (the catch re-throws, the
\* finally finds s3Keys empty).
ExtractFinally ==
  /\ at = "extractFinally"
  /\ tempDir' = tempDir \ FinallyRemoves(tempDir)
  /\ IF threw
       THEN /\ at' = "done"
            /\ synth' = Threw
            /\ UNCHANGED <<s3Keys, tasks>>
       ELSE /\ at' = "preprocess"
            /\ s3Keys' = chunkKeys
            /\ tasks' = [i \in ChunkIds |-> IF i <= Len(chunkKeys) THEN "pending" ELSE "none"]
            /\ UNCHANGED synth
  /\ UNCHANGED <<extractor, threw, bucket, audioChunks, chunkKeys,
                 preprocessedKeys, chunkPos, attempts, sttCalls, sttRetryable,
                 fullTranscript, offset, heard, cleanupPos, cleanupAttempts>>
  /\ UNCHANGED <<finished, refined, sttTimeouts, wait, abandoned>>
  /\ UNCHANGED <<orchVars, acqVars>>

\* One preprocess promise of generateWhisperTranscript: GetObject of the raw
\* chunk, preprocessAudio, and the upload of the preprocessed chunk.  The
\* promises run on their own: Promise.all rejecting does not stop them.
Preprocess(n, ok) ==
  /\ tasks[n] = "pending"
  /\ IF ok
       THEN /\ bucket' = bucket \cup {PreKey(n)}
            /\ tasks' = [tasks EXCEPT ![n] = "done"]
            /\ finished' = IF at = "preprocess" THEN Append(finished, n) ELSE finished
       ELSE /\ tasks' = [tasks EXCEPT ![n] = "failed"]
            /\ UNCHANGED <<bucket, finished>>
  /\ UNCHANGED <<extractor, at, threw, tempDir, audioChunks, chunkKeys, s3Keys,
                 preprocessedKeys, chunkPos, attempts, sttCalls, sttRetryable,
                 fullTranscript, offset, heard, synth, cleanupPos, cleanupAttempts>>
  /\ UNCHANGED <<refined, sttTimeouts, wait, abandoned>>
  /\ UNCHANGED <<orchVars, acqVars>>

\* The keys cleanupAudio is given: [...s3Keys, ...preprocessedKeys].
CleanupKeys(raw, pre) ==
  [i \in 1..Len(raw) |-> RawKey(raw[i])] \o [i \in 1..Len(pre) |-> PreKey(pre[i])]

\* Control reaches the finally block of generateWhisperTranscript with the
\* key lists raw and pre.
EnterFinally(raw, pre, error) ==
  /\ threw' = error
  /\ cleanupPos' = 1
  /\ cleanupAttempts' = 0
  /\ at' = IF Len(raw) > 0 \/ Len(pre) > 0 THEN "cleanup" ELSE "done"

\* What Promise.all resolves with: the promises' values in the order of the
\* promises, whatever the order in which they resolved.
PromiseAllInCompletionOrder(keys, completed) == completed

PromiseAll(keys, completed) == keys

\* preprocessedKeys = await Promise.all(preprocessPromises)
AwaitPreprocess ==
  /\ at = "preprocess"
  /\ \/ /\ \E n \in 1..Len(s3Keys) : tasks[n] = "failed"
        /\ EnterFinally(s3Keys, preprocessedKeys, TRUE)
        /\ synth' = Threw
        /\ finished' = <<>>
        /\ UNCHANGED <<preprocessedKeys, chunkPos>>
     \/ /\ \A n \in 1..Len(s3Keys) : tasks[n] = "done"
        /\ preprocessedKeys' = PromiseAll(s3Keys, finished)
        /\ chunkPos' = 1
        /\ at' = "getChunk"
        /\ UNCHANGED <<threw, synth, cleanupPos, cleanupAttempts, finished>>
  /\ UNCHANGED <<extractor, tempDir, bucket, audioChunks, chunkKeys, s3Keys, tasks,
                 attempts, sttCalls, sttRetryable, fullTranscript, offset, heard>>
  /\ UNCHANGED <<refined, sttTimeouts, wait, abandoned>>
  /\ UNCHANGED <<orchVars, acqVars>>

\* The transcription loop, for one chunk: GetObject of the preprocessed
\* chunk into a local file.  Nothing reads the order in which the promises
\* resolved once the loop runs, so it is dropped here.
GetChunk(ok) ==
  /\ at = "getChunk"
  /\ IF ok
       THEN /\ at' = "transcribe"
            /\ attempts' = 0
            /\ sttCalls' = 0
            /\ sttRetryable' = 0
            /\ sttTimeouts' = 0
            /\ UNCHANGED <<threw, synth, cleanupPos, cleanupAttempts>>
       ELSE /\ EnterFinally(s3Keys, preprocessedKeys, TRUE)
            /\ synth' = Threw
            /\ UNCHANGED <<attempts, sttCalls, sttRetryable, sttTimeouts>>
  /\ UNCHANGED <<extractor, tempDir, bucket, audioChunks, chunkKeys, s3Keys, tasks,
                 preprocessedKeys, chunkPos, fullTranscript, offset, heard>>
  /\ finished' = <<>>
  /\ abandoned' = IF ok THEN abandoned ELSE 0
  /\ UNCHANGED <<refined, wait>>
  /\ UNCHANGED <<orchVars, acqVars>>

\* What one transcription call, raced against the 60 s timer, ends with.
SttOk(segments) == [kind |-> "ok", segments |-> segments]
SttError(kind) == [kind |-> kind, segments |-> <<>>]
SttOutcomes ==
  {SttOk(r) : r \in SttResponses} \cup {SttError(k) : k \in {"rate_limit", "timeout", "other"}}

\* Every failure is retried.
RetryableAll(kind) == TRUE

\* Only the rate limit is retried.
RetryableRateLimitOnly(kind) == kind = "rate_limit"

\* error.status === 429 || error.message.includes('rate_limit')
\*   || error.message === 'Transcription timeout'
Retryable(kind) == kind \in {"rate_limit", "timeout"}

\* if (attempts >= maxRetries) throw ...
RetriesExhaustedLate(n) == n > maxRetries

RetriesExhausted(n) == n >= maxRetries

\* parseInt(error.headers?.['retry-after']) * 1000 || Math.pow(2, attempts) * 1000
retryAfter(hint, n) ==
  IF hint # NoHint /\ hint * 1000 # 0 THEN hint * 1000 ELSE (2 ^ n) * 1000

\* A loop that asks for the chunk once more after its first call succeeded.
NextChunkRepeats(items) ==
  IF sttCalls = 0
    THEN /\ at' = "transcribe"
         /\ UNCHANGED <<chunkPos, threw, synth, cleanupPos, cleanupAttempts>>
    ELSE IF chunkPos < Len(preprocessedKeys)
      THEN /\ chunkPos' = chunkPos + 1
           /\ at' = "getChunk"
           /\ UNCHANGED <<threw, synth, cleanupPos, cleanupAttempts>>
      ELSE /\ UNCHANGED chunkPos
           /\ IF Len(items) > 0
                THEN /\ at' = "refine"
                     /\ UNCHANGED <<threw, synth, cleanupPos, cleanupAttempts>>
                ELSE /\ EnterFinally(s3Keys, preprocessedKeys, TRUE)
                     /\ synth' = Threw

\* The loop is done with the chunk at chunkPos: the next chunk, or after
\* the last one the check that fullTranscript has items.
NextChunk(items) ==
  IF chunkPos < Len(preprocessedKeys)
    THEN /\ chunkPos' = chunkPos + 1
         /\ at' = "getChunk"
         /\ UNCHANGED <<threw, synth, cleanupPos, cleanupAttempts>>
    ELSE /\ UNCHANGED chunkPos
         /\ IF Len(items) > 0
              THEN /\ at' = "refine"
                   /\ UNCHANGED <<threw, synth, cleanupPos, cleanupAttempts>>
              ELSE /\ EnterFinally(s3Keys, preprocessedKeys, TRUE)
                   /\ synth' = Threw

\* One pass of while (attempts < maxRetries): the transcription call and
\* either the filter, the push and the offset advance, or the catch.
Transcribe(res, hint) ==
  /\ at = "transcribe"
  /\ hint # NoHint => res.kind = "rate_limit"
  /\ IF attempts >= maxRetries
       THEN /\ NextChunk(fullTranscript)
            /\ UNCHANGED <<attempts, sttCalls, sttRetryable, fullTranscript, offset, heard,
                           sttTimeouts, wait>>
       ELSE
         /\ sttCalls' = sttCalls + 1
         /\ IF res.kind = "ok"
              THEN LET segments == FilterSegments(res.segments) IN
                   /\ fullTranscript' = fullTranscript \o StitchSegments(segments, offset)
                   /\ offset' = AdvanceOffset(offset, segments)
                   /\ heard' = heard \o res.segments
                   /\ NextChunk(fullTranscript \o StitchSegments(segments, offset))
                   /\ wait' = NoWait
                   /\ sttTimeouts' = 0
                   /\ UNCHANGED <<attempts, sttRetryable>>
              ELSE /\ attempts' = attempts + 1
                   /\ sttRetryable' = IF res.kind \in {"rate_limit", "timeout"}
                                        THEN sttRetryable + 1 ELSE sttRetryable
                   /\ IF Retryable(res.kind) /\ ~RetriesExhausted(attempts + 1)
                        THEN /\ wait' = Waited(hint, retryAfter(hint, attempts + 1))
                             /\ sttTimeouts' = IF res.kind = "timeout" THEN sttTimeouts + 1
                                                                        ELSE sttTimeouts
                             /\ UNCHANGED <<at, threw, synth, cleanupPos, cleanupAttempts>>
                        ELSE /\ wait' = NoWait
                             /\ sttTimeouts' = 0
                             /\ EnterFinally(s3Keys, preprocessedKeys, TRUE)
                             /\ synth' = Threw
                   /\ UNCHANGED <<chunkPos, fullTranscript, offset, heard>>
  /\ abandoned' = IF at' \notin {"transcribe", "getChunk"} THEN 0
                   ELSE IF attempts < maxRetries /\ res.kind = "timeout" THEN abandoned + 1
                   ELSE abandoned
  /\ UNCHANGED <<extractor, tempDir, bucket, audioChunks, chunkKeys, s3Keys, tasks,
                 preprocessedKeys>>
  /\ UNCHANGED <<finished, refined>>
  /\ UNCHANGED <<orchVars, acqVars>>

\* Promise.race does not cancel the call that lost: the request goes on
\* until the service or the client library ends it, and its result is
\* dropped.
SettleAbandoned ==
  /\ abandoned > 0
  /\ abandoned' = abandoned - 1
  /\ UNCHANGED <<extractor, at, threw, tempDir, bucket, audioChunks, chunkKeys, s3Keys,
                 tasks, preprocessedKeys, chunkPos, attempts, sttCalls, sttRetryable,
                 fullTranscript, offset, heard, synth, cleanupPos, cleanupAttempts,
                 finished, refined, sttTimeouts, wait>>
  /\ UNCHANGED <<orchVars, acqVars>>

\* refineTranscript(rawText, prompt), the re-slice, and return finalTranscript.
Refine(res) ==
  /\ at = "refine"
  /\ refined' = [outcome |-> res, text |-> refineTranscript(RawText(fullTranscript), res)]
  /\ synth' = Returned(Reslice(fullTranscript,
                               refineTranscript(RawText(fullTranscript), res)))
  /\ EnterFinally(s3Keys, preprocessedKeys, FALSE)
  /\ UNCHANGED <<extractor, tempDir, bucket, audioChunks, chunkKeys, s3Keys, tasks,
                 preprocessedKeys, chunkPos, attempts, sttCalls, sttRetryable,
                 fullTranscript, offset, heard>>
  /\ UNCHANGED <<finished, sttTimeouts, wait, abandoned>>
  /\ UNCHANGED <<orchVars, acqVars>>

\* cleanupAudio rejecting when the last attempt for a key has failed.
DeleteThrowsAfterLastAttempt(ok) ==
  /\ at = "cleanup"
  /\ LET keys == CleanupKeys(s3Keys, preprocessedKeys)
         last == cleanupPos = Len(keys)
     IN
     IF ok
       THEN /\ bucket' = bucket \ {keys[cleanupPos]}
            /\ cleanupPos' = cleanupPos + 1
            /\ cleanupAttempts' = 0
            /\ at' = IF last THEN "done" ELSE "cleanup"
       ELSE /\ UNCHANGED bucket
            /\ IF cleanupAttempts + 1 >= cleanupMaxRetries
                 THEN /\ cleanupPos' = cleanupPos + 1
                      /\ cleanupAttempts' = 0
                      /\ at' = "done"
                 ELSE /\ cleanupAttempts' = cleanupAttempts + 1
                      /\ UNCHANGED <<cleanupPos, at>>
  /\ UNCHANGED <<extractor, threw, tempDir, audioChunks, chunkKeys, s3Keys, tasks,
                 preprocessedKeys, chunkPos, attempts, sttCalls, sttRetryable,
                 fullTranscript, offset, heard>>
  /\ synth' = IF ~ok /\ cleanupAttempts + 1 >= cleanupMaxRetries THEN Threw ELSE synth
  /\ UNCHANGED <<finished, refined, sttTimeouts, wait, abandoned>>
  /\ UNCHANGED <<orchVars, acqVars>>

\* cleanupAudio: one delete request for the key at cleanupPos; the next key
\* after a success or after the third failure.
Delete(ok) ==
  /\ at = "cleanup"
  /\ LET keys == CleanupKeys(s3Keys, preprocessedKeys)
         last == cleanupPos = Len(keys)
     IN
     IF ok
       THEN /\ bucket' = bucket \ {keys[cleanupPos]}
            /\ cleanupPos' = cleanupPos + 1
            /\ cleanupAttempts' = 0
            /\ at' = IF last THEN "done" ELSE "cleanup"
       ELSE /\ UNCHANGED bucket
            /\ IF cleanupAttempts + 1 >= cleanupMaxRetries
                 THEN /\ cleanupPos' = cleanupPos + 1
                      /\ cleanupAttempts' = 0
                      /\ at' = IF last THEN "done" ELSE "cleanup"
                 ELSE /\ cleanupAttempts' = cleanupAttempts + 1
                      /\ UNCHANGED <<cleanupPos, at>>
  /\ UNCHANGED <<extractor, threw, tempDir, audioChunks, chunkKeys, s3Keys, tasks,
                 preprocessedKeys, chunkPos, attempts, sttCalls, sttRetryable,
                 fullTranscript, offset, heard, synth>>
  /\ UNCHANGED <<finished, refined, sttTimeouts, wait, abandoned>>
  /\ UNCHANGED <<orchVars, acqVars>>

\* Back in fetchTranscript's Whisper branch: a thrown run is re-thrown to the
\* caller; a returned transcript is given to Transcript.create, which writes
\* it unless the store rejects the write.
ReturnToCallerSavesPartial(res) ==
  /\ at = "done"
  /\ at' = "caller"
  /\ store' = Append(store, Document(RunVideo, fullTranscript))
  /\ UNCHANGED <<impl, isProduction, pc, arg, langIdx, local, result, outcome, did, after>>
  /\ UNCHANGED <<extractor, threw, tempDir, bucket, audioChunks, chunkKeys, s3Keys, tasks,
                 preprocessedKeys, chunkPos, attempts, sttCalls, sttRetryable,
                 fullTranscript, offset, heard, synth, cleanupPos, cleanupAttempts,
                 finished, refined, sttTimeouts, wait, abandoned>>
  /\ UNCHANGED acqVars

ReturnToCaller(res) ==
  /\ at = "done"
  /\ at' = "caller"
  /\ IF ~synth.threw /\ res = "ok" /\ ~DuplicateKey(RunVideo)
       THEN store' = Append(store, Document(RunVideo, synth.transcript))
       ELSE UNCHANGED store
  /\ UNCHANGED <<impl, isProduction, pc, arg, langIdx, local, result, outcome, did, after>>
  /\ UNCHANGED <<extractor, threw, tempDir, bucket, audioChunks, chunkKeys, s3Keys, tasks,
                 preprocessedKeys, chunkPos, attempts, sttCalls, sttRetryable,
                 fullTranscript, offset, heard, synth, cleanupPos, cleanupAttempts,
                 finished, refined, sttTimeouts, wait, abandoned>>
  /\ UNCHANGED acqVars

SynthNext ==
  \/ \E ok \in BOOLEAN : FetchDetails(ok)
  \/ PreCleanLocal
  \/ \E ok \in BOOLEAN : PreCleanS3(ok)
  \/ \E ok \in BOOLEAN : Download(ok)
  \/ \E ok \in BOOLEAN : UploadMp3(ok)
  \/ \E n \in 0..MaxChunks, ok \in BOOLEAN : Segment(n, ok)
  \/ \E ok \in BOOLEAN : UploadChunk(ok)
  \/ ExtractFinally
  \/ \E n \in ChunkIds, ok \in BOOLEAN : Preprocess(n, ok)
  \/ AwaitPreprocess
  \/ \E ok \in BOOLEAN : GetChunk(ok)
  \/ \E res \in SttOutcomes, hint \in RetryHints : Transcribe(res, hint)
  \/ SettleAbandoned
  \/ \E res \in RefineOutcomes : Refine(res)
  \/ \E ok \in BOOLEAN : Delete(ok)
  \/ \E res \in {"ok", "fault"} : ReturnToCaller(res)

SpecSynth == SynthInit /\ [][SynthNext]_vars

\* ============================================================== acquisition
\* extractAudio as several runs execute it over one temporary directory and
\* one bucket, and what the rest of each run needs from the bucket.  File
\* and object names carry the video id and no trace of the run that wrote
\* them, so two runs for one video write the same names.  A step is what a
\* run does between two awaits, or a sequence of such pieces with the other
\* runs standing still.

\* The URLs extractAudio is called with; generateWhisperTranscript builds
\* the first form.
Urls == {"https://www.youtube.com/watch?v=abc123",
         "https://www.youtube.com/watch?v=xyz789",
         "https://youtu.be/abc123"}

\* videoUrl.match(/v=([^&]+)/)?.[1]
videoIdOf(url) ==
  CASE url = "https://www.youtube.com/watch?v=abc123" -> "abc123"
    [] url = "https://www.youtube.com/watch?v=xyz789" -> "xyz789"
    [] OTHER -> None

InvalidVideoUrl == "Invalid video URL"
DependenciesMissing == "Required dependencies (yt-dlp or ffmpeg) are missing"
ExtractFailed == "Failed to extract audio"
GenerateFailed == "Failed to generate transcript"

\* audio_<video>.mp3 and audio_<video>_<n>.wav in the temporary directory.
LocalMp3(video) == [video |-> video, kind |-> "mp3", n |-> 0]
LocalChunk(video, n) == [video |-> video, kind |-> "wav", n |-> n]

\* The objects a run for `video` puts: the mp3, the chunk it uploads from
\* the local file `file`, and the preprocessed chunk of that key.
Mp3ObjectOf(video) == [video |-> video, kind |-> "mp3", of |-> video, n |-> 0]
RawObject(video, file) == [video |-> video, kind |-> "raw", of |-> file.video, n |-> file.n]
PreObject(key) == [video |-> key.video, kind |-> "pre", of |-> key.of, n |-> key.n]

\* Every chunk file name, in the order chunks.sort() gives them.
ChunkOrder ==
  [i \in 1..(2 * MaxChunks) |->
     LocalChunk(IF i <= MaxChunks THEN "abc123" ELSE "xyz789", ((i - 1) % MaxChunks) + 1)]

\* segmentAudio's listing when ffmpeg ends: every file of the directory
\* that matches /audio_.*_\d{3}\.wav$/ and is not a preprocessed one, sorted.
ListChunks(files) == SelectSeq(ChunkOrder, LAMBDA f : f \in files)

\* What one yt-dlp call ends with: the audio file, a file that holds only
\* the beginning of the audio or nothing ("truncated"), or a rejection.
DownloadOutcomes == {"ok", "truncated", "rate_limited", "timeout", "unavailable"}

\* yt-dlp resolved and fs.access(tempFile) passes: the file exists, whatever
\* its size.
DownloadAccepted(res) == res \in {"ok", "truncated"}

\* The next state of run r.
Becomes(r, rec) == acq' = [acq EXCEPT ![r] = rec]

\* An error inside extractAudio's try block: control goes to the catch and
\* the finally block.
ExtractThrows(r, fault) ==
  Becomes(r, [acq[r] EXCEPT !.at = "extractFinally", !.error = ExtractFailed,
                            !.faulted = @ \/ fault])

\* extractAudio(videoUrl) up to its first await inside the try block: the
\* dependency check of the "tmp" version, then the URL check.
StartExtract(r, url, depsOk) ==
  /\ acq[r].at = "idle"
  /\ LET started == [acq[r] EXCEPT !.url = url, !.probed = (extractor = "tmp"),
                                   !.before = {q \in Runs : acq[q].at = "done"}]
     IN
     IF extractor = "tmp" /\ ~depsOk
       THEN Becomes(r, [started EXCEPT !.at = "done", !.error = DependenciesMissing,
                                       !.faulted = TRUE])
       ELSE IF videoIdOf(url) = None
         THEN Becomes(r, [started EXCEPT !.at = "done", !.error = InvalidVideoUrl])
         ELSE Becomes(r, [started EXCEPT !.at = "preclean", !.videoId = videoIdOf(url)])
  /\ UNCHANGED <<disk, objects>>
  /\ UNCHANGED <<orchVars, synthVars>>

\* The unlink of every file whose name includes the video id and ends in
\* .wav or .mp3.
AcqPreCleanLocal(r) ==
  /\ acq[r].at = "preclean"
  /\ disk' = {f \in disk : f.video # acq[r].videoId}
  /\ Becomes(r, [acq[r] EXCEPT !.at = IF extractor = "objstore" THEN "precleanS3"
                                                                ELSE "download"])
  /\ UNCHANGED objects
  /\ UNCHANGED <<orchVars, synthVars>>

\* "objstore": ListObjectsV2 with Prefix audio_<videoId>, and DeleteObjects
\* of what it lists.
AcqPreCleanS3(r) ==
  /\ acq[r].at = "precleanS3"
  /\ objects' = {o \in objects : o.video # acq[r].videoId}
  /\ Becomes(r, [acq[r] EXCEPT !.at = "download"])
  /\ UNCHANGED disk
  /\ UNCHANGED <<orchVars, synthVars>>

\* The one yt-dlp call and the access check of tempFile.
AcqDownload(r, res) ==
  /\ acq[r].at = "download"
  /\ LET called == [acq[r] EXCEPT !.downloads = @ + 1, !.dlResult = res] IN
     IF DownloadAccepted(res)
       THEN /\ disk' = disk \cup {LocalMp3(acq[r].videoId)}
            /\ Becomes(r, [called EXCEPT !.at = IF extractor = "objstore" THEN "uploadMp3"
                                                                         ELSE "segment"])
       ELSE /\ UNCHANGED disk
            /\ Becomes(r, [called EXCEPT !.at = "extractFinally", !.error = ExtractFailed,
                                         !.faulted = TRUE])
  /\ UNCHANGED objects
  /\ UNCHANGED <<orchVars, synthVars>>

\* "objstore": PutObject of audio_<videoId>.mp3 from a read stream of
\* tempFile.
AcqUploadMp3(r, ok) ==
  /\ acq[r].at = "uploadMp3"
  /\ IF LocalMp3(acq[r].videoId) \notin disk
       THEN /\ ExtractThrows(r, FALSE)
            /\ UNCHANGED objects
       ELSE IF ok
         THEN /\ objects' = objects \cup {Mp3ObjectOf(acq[r].videoId)}
              /\ Becomes(r, [acq[r] EXCEPT !.at = "segment"])
         ELSE /\ ExtractThrows(r, TRUE)
              /\ UNCHANGED objects
  /\ UNCHANGED disk
  /\ UNCHANGED <<orchVars, synthVars>>

\* segmentAudio: ffmpeg writes n chunk files of the video and the listing is
\* taken; then the check of audioChunks.length.
AcqSegment(r, n) ==
  /\ acq[r].at = "segment"
  /\ IF LocalMp3(acq[r].videoId) \notin disk
       THEN /\ ExtractThrows(r, FALSE)
            /\ UNCHANGED disk
       ELSE LET written == disk \cup {LocalChunk(acq[r].videoId, i) : i \in 1..n}
                listed == ListChunks(written)
            IN
            /\ disk' = written
            /\ IF Len(listed) = 0
                 THEN Becomes(r, [acq[r] EXCEPT !.at = "extractFinally", !.produced = n,
                                                !.error = ExtractFailed, !.faulted = TRUE])
                 ELSE Becomes(r, [acq[r] EXCEPT !.at = "uploadChunk", !.produced = n,
                                                !.audioChunks = listed,
                                                !.faulted = @ \/ (n = 0)])
  /\ UNCHANGED objects
  /\ UNCHANGED <<orchVars, synthVars>>

\* The upload of the next chunk of audioChunks, and after the last one the
\* return statement.
AcqUploadChunk(r, ok) ==
  /\ acq[r].at = "uploadChunk"
  /\ LET chunk == acq[r].audioChunks[Len(acq[r].s3Keys) + 1]
         key == RawObject(acq[r].videoId, chunk)
         last == Len(acq[r].s3Keys) + 1 = Len(acq[r].audioChunks)
     IN
     IF chunk \notin disk
       THEN /\ ExtractThrows(r, FALSE)
            /\ UNCHANGED objects
       ELSE IF ok
         THEN /\ objects' = objects \cup {key}
              /\ Becomes(r, [acq[r] EXCEPT !.s3Keys = Append(@, key),
                                           !.at = IF last THEN "extractFinally"
                                                          ELSE "uploadChunk"])
         ELSE /\ ExtractThrows(r, TRUE)
              /\ UNCHANGED objects
  /\ UNCHANGED disk
  /\ UNCHANGED <<orchVars, synthVars>>

\* What extractAudio's finally block unlinks: tempFile, and in the
\* "objstore" version every .wav whose name includes the video id.
AcqFinallyRemoves(video) ==
  {LocalMp3(video)} \cup
  (IF extractor = "objstore" THEN {f \in disk : f.video = video /\ f.kind = "wav"} ELSE {})

\* The finally block; then extractAudio returns its keys to
\* generateWhisperTranscript, or throws, and generateWhisperTranscript's
\* own finally finds s3Keys empty.
AcqExtractFinally(r) ==
  /\ acq[r].at = "extractFinally"
  /\ disk' = disk \ AcqFinallyRemoves(acq[r].videoId)
  /\ IF acq[r].error # None
       THEN Becomes(r, [acq[r] EXCEPT !.at = "done"])
       ELSE Becomes(r, [acq[r] EXCEPT !.at = "preprocess", !.returned = acq[r].s3Keys])
  /\ UNCHANGED objects
  /\ UNCHANGED <<orchVars, synthVars>>

\* The preprocess promises and Promise.all: each GetObject of a chunk key
\* (written to /tmp under the chunk's file name), preprocessAudio and the
\* upload of the preprocessed chunk.  A key that is gone rejects its promise.
AcqPreprocess(r) ==
  /\ acq[r].at = "preprocess"
  /\ LET keys == acq[r].returned
         there == SelectSeq(keys, LAMBDA k : k \in objects)
     IN
     /\ objects' = objects \cup {PreObject(there[i]) : i \in 1..Len(there)}
     /\ disk' = IF extractor = "tmp"
                  THEN disk \cup {LocalChunk(there[i].of, there[i].n) : i \in 1..Len(there)}
                  ELSE disk
     /\ IF Len(there) = Len(keys)
          THEN Becomes(r, [acq[r] EXCEPT !.at = "transcribe",
                             !.preprocessedKeys = [i \in 1..Len(keys) |-> PreObject(keys[i])]])
          ELSE Becomes(r, [acq[r] EXCEPT !.at = "cleanup", !.error = GenerateFailed])
  /\ UNCHANGED <<orchVars, synthVars>>

\* The transcription loop: the GetObject of each preprocessed chunk; a key
\* that is gone ends the run with an error.
AcqTranscribe(r) ==
  /\ acq[r].at = "transcribe"
  /\ IF \A i \in 1..Len(acq[r].preprocessedKeys) : acq[r].preprocessedKeys[i] \in objects
       THEN Becomes(r, [acq[r] EXCEPT !.at = "cleanup"])
       ELSE Becomes(r, [acq[r] EXCEPT !.at = "cleanup", !.error = GenerateFailed])
  /\ UNCHANGED <<disk, objects>>
  /\ UNCHANGED <<orchVars, synthVars>>

\* generateWhisperTranscript's finally: cleanupAudio([...s3Keys,
\* ...preprocessedKeys]).
AcqCleanup(r) ==
  /\ acq[r].at = "cleanup"
  /\ objects' = objects \ ({acq[r].returned[i] : i \in 1..Len(acq[r].returned)} \cup
                           {acq[r].preprocessedKeys[i] : i \in 1..Len(acq[r].preprocessedKeys)})
  /\ Becomes(r, [acq[r] EXCEPT !.at = "done"])
  /\ UNCHANGED disk
  /\ UNCHANGED <<orchVars, synthVars>>

AcqInit ==
  /\ impl = "s3"
  /\ isProduction = FALSE
  /\ OrchIdle
  /\ extractor \in Extractors
  /\ SynthIdle
  /\ AcqIdle

AcqNext ==
  \E r \in Runs :
    \/ \E url \in Urls, depsOk \in BOOLEAN : StartExtract(r, url, depsOk)
    \/ AcqPreCleanLocal(r)
    \/ AcqPreCleanS3(r)
    \/ \E res \in DownloadOutcomes : AcqDownload(r, res)
    \/ \E ok \in BOOLEAN : AcqUploadMp3(r, ok)
    \/ \E n \in 0..MaxChunks : AcqSegment(r, n)
    \/ \E ok \in BOOLEAN : AcqUploadChunk(r, ok)
    \/ AcqExtractFinally(r)
    \/ AcqPreprocess(r)
    \/ AcqTranscribe(r)
    \/ AcqCleanup(r)

SpecAcquire == AcqInit /\ [][AcqNext]_vars

\* =================================================================== claims
SynthesisCalls == {"whisper", "extractAudio", "speechToText"}
ExternalCalls ==
  {"captions", "whisper", "videoDetails", "extractAudio", "objectStore", "speechToText",
   "textCorrection"}

Finished(p) == pc[p] = "done"
GotTranscript(p) == Finished(p) /\ outcome[p] = "transcript"

\* C1 (as stated): once N concurrent calls for a video that was not in the
\* store have all finished, the store holds exactly one record for the
\* video and every caller has received a transcript equal to that record's.
C1_EveryCallerReceivesTheRecord ==
  (\A p \in Callers : Finished(p)) =>
    \A p \in Callers :
      arg[p].videoId # StoredVideo =>
        /\ Len(DocsOf(arg[p].videoId)) = 1
        /\ outcome[p] = "transcript"
        /\ result[p] = DocsOf(arg[p].videoId)[1].transcript

\* C1 (amended): at any moment the store holds at most one record per
\* video; every caller that has received a transcript, rather than null or
\* an error, finds exactly one record for its video in the store, and what
\* it received equals that record's transcript.
C1_OneRecordSharedByReceivers ==
  /\ \A v \in Videos : Len(DocsOf(v)) <= 1
  /\ \A p \in Callers :
       GotTranscript(p) =>
         /\ Len(DocsOf(arg[p].videoId)) = 1
         /\ result[p] = DocsOf(arg[p].videoId)[1].transcript

\* C1 witness: two calls for the same uncached video raced; one wrote the
\* record and the other, having built a different transcript, hit the
\* duplicate key and returned the record.
C1_Witness ==
  \E p, q \in Callers :
    /\ p # q
    /\ arg[p].videoId = arg[q].videoId
    /\ GotTranscript(p) /\ "write" \in did[p]
    /\ GotTranscript(q) /\ "duplicate" \in did[q] /\ "whisper" \in did[q]
    /\ "captionTrack" \in did[p]

\* C2: in a call in which the caption source returned a non-empty track,
\* generateWhisperTranscript, extractAudio and the speech-to-text service
\* are never invoked, whatever happens afterwards in that call.
C2_NoSynthesisAfterCaptions ==
  \A p \in Callers :
    "captionTrack" \in did[p] => did[p] \cap SynthesisCalls = {}

\* C3: when generateWhisperTranscript has returned or thrown, the object
\* store holds no object that the run created: no source media object, no
\* raw chunk, no preprocessed chunk.
C3_NoObjectLeftByTheRun ==
  at = "done" => bucket = {}

\* C4: once extractAudio has returned or re-raised, no local temporary file
\* of the video (downloaded media file or chunk file) is left in the
\* temporary directory.
InExtractAudio ==
  at \in {"preclean", "precleanS3", "download", "uploadMp3", "segment", "uploadChunk",
          "extractFinally"}

C4_NoLocalFileAfterExtract ==
  (at # "idle" /\ ~InExtractAudio) => tempDir = {}

\* C5: the speech-to-text service is never called a 4th time for a chunk,
\* and when every call for a chunk ended in a rate limit or a timeout the
\* loop leaves the chunk only by raising, after exactly 3 calls.
C5_ThreeCallsThenRaise ==
  /\ sttCalls <= 3
  /\ (at # "transcribe" /\ sttCalls > 0 /\ sttRetryable = sttCalls) =>
       (sttCalls = 3 /\ threw /\ synth = Threw)

\* C5 witness: a run ended after three retryable failures on one chunk.
C5_Witness ==
  at = "done" /\ sttCalls = 3 /\ sttRetryable = 3 /\ synth = Threw

\* C6: in every transcript fetchTranscript returns (from the cache, from
\* captions, or synthesized) the offsets of adjacent segments never decrease.
NonDecreasing(transcript) ==
  \A i \in 1..(Len(transcript) - 1) : transcript[i].offset <= transcript[i + 1].offset

C7_SecondFetchSameAndSilent ==
  \A p \in Callers :
    (pc[p] # "idle" /\ after[p] # {}) =>
      /\ GotTranscript(p)
      /\ \A q \in after[p] : result[p] = result[q]
      /\ did[p] \cap ExternalCalls = {}

\* C7 witness: a second call followed a first one that had synthesized and
\* written the transcript.
C7_Witness ==
  \E p \in Callers :
    \E q \in after[p] : Finished(p) /\ "whisper" \in did[q] /\ "write" \in did[q]

\* C8: a call that finds a record for its video in the store returns that
\* record's transcript at once: no caption fetch, no synthesis, no write,
\* and the store is left as it was.
C8_CacheHitOnlyReturns ==
  [][\A p \in Callers :
       (pc[p] = "idle" /\ pc'[p] # "idle" /\ Len(DocsOf(arg'[p].videoId)) > 0) =>
         /\ pc'[p] = "done"
         /\ outcome'[p] = "transcript"
         /\ result'[p] = DocsOf(arg'[p].videoId)[1].transcript
         /\ did'[p] = {"cacheHit"}
         /\ store' = store]_vars

\* C8 witness: a call was served from the store with the record another
\* call had written.
C8_Witness ==
  \E p, q \in Callers :
    /\ p # q /\ arg[p].videoId = arg[q].videoId
    /\ Finished(p) /\ "cacheHit" \in did[p] /\ Len(result[p]) > 0
    /\ "write" \in did[q]

\* C9: every segment of a synthesized transcript comes from a recognized
\* segment with avg_logprob > -0.4 and no_speech_prob < 0.4, and no other
\* recognized segment contributes a segment.
Confident(segment) == segment.avg_logprob > -4 /\ segment.no_speech_prob < 4

C9_OnlyConfidentSegments ==
  LET passing == SelectSeq(heard, Confident) IN
  /\ Len(fullTranscript) = Len(passing)
  /\ \A i \in 1..Len(fullTranscript) : fullTranscript[i].text = passing[i].text
  /\ (at \in {"cleanup", "done"} /\ ~threw) =>
       /\ Len(synth.transcript) = Len(passing)
       /\ \A i \in 1..Len(passing) :
            /\ synth.transcript[i].offset = fullTranscript[i].offset
            /\ synth.transcript[i].duration = (passing[i].end - passing[i].start) * 100

\* C9 witness: a run returned a transcript although the service had also
\* reported a segment at a threshold (avg_logprob -0.4, no_speech_prob 0.4).
C9_Witness ==
  /\ at = "done" /\ ~threw /\ Len(synth.transcript) > 0
  /\ \E i \in 1..Len(heard) : heard[i].avg_logprob = -4
  /\ \E i \in 1..Len(heard) : heard[i].no_speech_prob = 4

\* C10: in the skip-synthesis profile (the "local" version with NODE_ENV
\* production) a call for an uncached video without captions returns null
\* and calls neither the downloader nor the speech-to-text service.
SkipSynthesis == impl = "local" /\ isProduction

C10_ProductionSkipsSynthesis ==
  SkipSynthesis =>
    \A p \in Callers :
      /\ did[p] \cap SynthesisCalls = {}
      /\ (Finished(p) /\ did[p] \cap {"noLanguage", "emptyTrack"} # {}) => outcome[p] = "null"

\* C10 witness: every caption call of a production call failed and the
\* call ended.
C10_Witness ==
  \E p \in Callers :
    SkipSynthesis /\ Finished(p) /\ "noLanguage" \in did[p] /\ outcome[p] = "null"

\* C11: in the skip-synthesis profile no call ends with an error thrown to
\* its caller, whatever fails inside it (a store lookup, a write that is
\* rejected for another reason than a duplicate key, a re-read).
C11_ProductionNeverThrows ==
  SkipSynthesis => \A p \in Callers : outcome[p] # "error"

\* C11 witness: production calls that ended with null after a rejected
\* lookup, after a rejected write, and after a rejected re-read.
C11_Witness ==
  /\ SkipSynthesis
  /\ \E p \in Callers :
       /\ Finished(p) /\ outcome[p] = "null"
       /\ "create" \in did[p] /\ "write" \notin did[p] /\ "duplicate" \notin did[p]
  /\ \E p \in Callers :
       Finished(p) /\ outcome[p] = "null" /\ did[p] \cap {"lookupFault", "rereadFault"} # {}

\* C12: a call that has ended has exactly one of the outcomes transcript,
\* null, error; null occurs only in the skip-synthesis profile and an error
\* only outside it; a call that has not ended has no outcome.
C12_ThreeOutcomes ==
  \A p \in Callers :
    /\ Finished(p) <=> outcome[p] \in {"transcript", "null", "error"}
    /\ ~Finished(p) => outcome[p] = None
    /\ outcome[p] = "null" => SkipSynthesis
    /\ outcome[p] = "error" => ~SkipSynthesis
    /\ outcome[p] # "transcript" => result[p] = NoTranscript

\* C12 witness: with the profile disabled one call ended with a transcript
\* and another with an error.
C12_Witness ==
  /\ ~SkipSynthesis
  /\ \E p, q \in Callers : outcome[p] = "transcript" /\ outcome[q] = "error"

\* C13: the step in which a write is rejected with a duplicate key raises
\* nothing and leaves the store as it was, and the call then ends by
\* returning the transcript of the record the store holds, again without
\* changing the store.
C13_DuplicateReturnsStoredRecord ==
  [][\A p \in Callers :
       /\ ("duplicate" \notin did[p] /\ "duplicate" \in did'[p]) =>
            /\ store' = store
            /\ outcome'[p] = None
       /\ ("duplicate" \in did[p] /\ pc[p] # "done" /\ pc'[p] = "done") =>
            /\ outcome'[p] = "transcript"
            /\ Len(DocsOf(arg[p].videoId)) = 1
            /\ result'[p] = DocsOf(arg[p].videoId)[1].transcript
            /\ store' = store]_vars

\* C13 witness: a call that had fetched captions met the duplicate key of a
\* record another call had synthesized and written, and returned that record.
C13_Witness ==
  \E p, q \in Callers :
    /\ p # q /\ arg[p].videoId = arg[q].videoId
    /\ GotTranscript(p) /\ "captionTrack" \in did[p] /\ "duplicate" \in did[p]
    /\ "whisper" \notin did[p]
    /\ GotTranscript(q) /\ "whisper" \in did[q] /\ "write" \in did[q]
    /\ result[p] = result[q]

\* C14: once the store holds a record for a video, no step changes the
\* records the store holds for that video: the transcript first written
\* stays (the expiry of records is outside the model).
C14_StoredTranscriptNeverChanges ==
  [][\A v \in Videos : Len(DocsOf(v)) > 0 => DocsOf(v)' = DocsOf(v)]_vars

\* C14 witness: after one call wrote the record, another call that had built
\* a transcript of its own tried to write it, and the record is still the
\* first writer's.
C14_Witness ==
  \E p, q \in Callers :
    /\ p # q /\ arg[p].videoId = arg[q].videoId
    /\ "write" \in did[p] /\ "duplicate" \in did[q]
    /\ DocsOf(arg[p].videoId) = <<Document(arg[p].videoId, result[p])>>

\* The caption tracks the source can return for a video, each reduced to
\* the text, offset and duration of its segments, in the source's order.
CaptionSegments(videoId) ==
  { [i \in 1..Len(CaptionItems(videoId, l)) |->
       [text |-> CaptionItems(videoId, l)[i].text,
        offset |-> CaptionItems(videoId, l)[i].offset,
        duration |-> CaptionItems(videoId, l)[i].duration]] :
      l \in PreferredLangs \cup {"ta", "hi", "en"} }

Reported == SubSeq(heard', Len(heard) + 1, Len(heard'))
Retained == SelectSeq(Reported, Confident)
Pushed == SubSeq(fullTranscript', Len(fullTranscript) + 1, Len(fullTranscript'))
TranscribedOk == at = "transcribe" /\ sttCalls' = sttCalls + 1 /\ attempts' = attempts

\* C16: the running offset is 0 when the loop starts; a successful
\* transcription of a chunk pushes one item per retained segment with offset
\* (segment start + running offset) in milliseconds, and advances the
\* running offset by the end of the last retained segment, or by the chunk
\* duration used for segmentation when no segment is retained.
C16_StitchingArithmetic ==
  [][/\ (chunkPos = 0 /\ chunkPos' = 1) => offset' = 0
     /\ TranscribedOk =>
          /\ Len(Pushed) = Len(Retained)
          /\ \A i \in 1..Len(Retained) :
               Pushed[i].offset = (Retained[i].start + offset) * 100
          /\ offset' = IF Len(Retained) > 0
                         THEN offset + Retained[Len(Retained)].end
                         ELSE offset + segmentTime]_vars

\* C17: once a chunk has used up its three attempts the run is failing or
\* has failed: it throws, it returns no transcript, no further transcription
\* call is made (for this chunk or a later one), and the store holds no
\* record for the video.
C17_ExhaustedChunkFailsTheRun ==
  attempts >= 3 =>
    /\ at \in {"cleanup", "done", "caller"}
    /\ threw /\ synth = Threw
    /\ sttCalls = 3
    /\ DocsOf(RunVideo) = <<>>

\* C17 witness: the first of two chunks used up its attempts, the run threw
\* and control is back in fetchTranscript.
C17_Witness ==
  /\ at = "caller" /\ attempts = 3
  /\ chunkPos = 1 /\ Len(preprocessedKeys) = 2
  /\ synth = Threw /\ DocsOf(RunVideo) = <<>>

\* C18: a transcription call is made only when every chunk has been
\* preprocessed, for the chunk whose index is the loop position; and the
\* loop moves from chunk k to chunk k + 1 only in the step in which chunk
\* k's transcription succeeded, its retained segments were pushed and the
\* running offset was advanced.
C18_ChunksInSequence ==
  [][/\ sttCalls' = sttCalls + 1 =>
          /\ \A n \in 1..Len(s3Keys) : tasks[n] = "done"
          /\ chunkPos \in 1..Len(preprocessedKeys)
          /\ preprocessedKeys[chunkPos] = chunkPos
     /\ (chunkPos >= 1 /\ chunkPos' # chunkPos) =>
          /\ chunkPos' = chunkPos + 1
          /\ TranscribedOk
          /\ Len(Pushed) = Len(Retained)
          /\ offset' > offset]_vars

\* C18 witness: the loop is about to start with the first chunk although
\* the second chunk's preprocessing had finished before the first chunk's.
C18_Witness ==
  /\ at = "getChunk" /\ chunkPos = 1
  /\ Len(finished) >= 2 /\ finished[1] = 2 /\ finished[2] = 1
  /\ preprocessedKeys[1] = 1 /\ preprocessedKeys[2] = 2

\* C19: refineTranscript never throws, and when the text-correction call
\* fails, times out or gives an empty content it returns the text it was
\* given; the run that called it returns a transcript.
C19_RefineNeverFailsTheRun ==
  refined.outcome # None =>
    /\ ~threw /\ ~synth.threw
    /\ Len(synth.transcript) = Len(fullTranscript)
    /\ refined.outcome \in {"error", "blank"} => refined.text = RawText(fullTranscript)

\* C19 witness: a run returned a transcript after the text-correction call
\* gave an empty content.
C19_Witness ==
  /\ at = "done" /\ refined.outcome = "blank"
  /\ Len(synth.transcript) >= 2 /\ Len(refined.text) > 0

\* The order in which the claim has the languages tried.
CaptionOrder(language) == <<language, "ta", "hi", "en">>

\* The step of caller p is a caption call.
CaptionCall(p) ==
  pc[p] = "caption" /\ (pc'[p] # "caption" \/ langIdx'[p] # langIdx[p])

\* C20: the n-th caption call of a call asks for the n-th language of
\* (preferred, ta, hi, en); a call that fails is followed by the call for
\* the next language, never by a second call for the same one; the track of
\* the first call that succeeds is the one kept; there is no 5th call, and
\* "no caption" is the end only after the 4th call has failed.
C20_LanguageFallbackOrder ==
  [][\A p \in Callers :
       CaptionCall(p) =>
         /\ langIdx[p] \in 0..3
         /\ "captions" \in did'[p]
         /\ pc'[p] = "caption" => (langIdx[p] < 3 /\ langIdx'[p] = langIdx[p] + 1)
         /\ pc'[p] = "createCaption" =>
              local'[p][1].text = <<CaptionOrder(arg[p].language)[langIdx[p] + 1]>>
         /\ "noLanguage" \in did'[p] =>
              (langIdx[p] = 3 /\ pc'[p] \notin {"caption", "createCaption"})]_vars

\* C20 witness: the fourth caption call, for en, succeeded after the calls
\* for the preferred language, ta and hi had failed.
C20_Witness ==
  \E p \in Callers :
    /\ pc[p] = "createCaption" /\ arg[p].language = "fr"
    /\ Len(local[p]) = 2 /\ local[p][1].text = <<"en">>

\* The stage of the orchestrator's state machine a call is in.
StageOf(pcv, outc, didv) ==
  CASE pcv = "idle" -> "Start"
    [] pcv \in {"caption", "createCaption", "rereadCaption"} -> "PublicCaptionAttempt"
    [] pcv \in {"whisper", "createWhisper", "rereadWhisper"} -> "WhisperFallback"
    [] pcv = "done" /\ outc = "transcript" /\ "cacheHit" \in didv -> "CacheHit"
    [] pcv = "done" /\ outc = "transcript" /\ "cacheHit" \notin didv -> "Persisted"
    [] OTHER -> "Failed"

\* The caption attempt of the call has been made and has found no captions.
FoundNoCaptions(didv) ==
  /\ "captions" \in didv
  /\ didv \cap {"noLanguage", "emptyTrack"} # {}
  /\ "captionTrack" \notin didv

\* C21: a call moves between stages only as the state machine allows:
\* CacheHit, Persisted and Failed are final; PublicCaptionAttempt is left
\* for Persisted or for WhisperFallback (whose skip-synthesis policy may end
\* the call at once with "unavailable"), never directly for Failed;
\* WhisperFallback is left for Persisted or Failed, and is entered only
\* after the caption attempt has found no captions.
C21_StageTransitions ==
  [][\A p \in Callers :
       LET from == StageOf(pc[p], outcome[p], did[p])
           to == StageOf(pc'[p], outcome'[p], did'[p])
       IN
       /\ from \in {"CacheHit", "Persisted", "Failed"} => to = from
       /\ from = "Start" => to \in {"Start", "CacheHit", "PublicCaptionAttempt"}
       /\ from = "PublicCaptionAttempt" =>
            \/ to \in {"PublicCaptionAttempt", "Persisted", "WhisperFallback"}
            \/ to = "Failed" /\ SkipSynthesis /\ FoundNoCaptions(did'[p])
       /\ from = "WhisperFallback" => to \in {"WhisperFallback", "Persisted", "Failed"}
       /\ (from # "WhisperFallback" /\ to = "WhisperFallback") =>
            FoundNoCaptions(did'[p])]_vars

\* extractAudio of run r has gone past its download.
PastDownload(r) == acq[r].at \notin {"idle", "preclean", "precleanS3", "download"}

\* C22: a download that fails with a rate limit or a timeout is retried,
\* so that acquisition gives up on such a failure only after 3 to 5 yt-dlp
\* calls; a download that fails because the content is unavailable, private
\* or restricted is not retried; there are never more than 5 calls.
C22_DownloadRetried ==
  \A r \in Runs :
    /\ acq[r].downloads <= 5
    /\ (PastDownload(r) /\ acq[r].dlResult \in {"rate_limited", "timeout"}) =>
         acq[r].downloads \in 3..5
    /\ (PastDownload(r) /\ acq[r].dlResult = "unavailable") => acq[r].downloads = 1

\* C23: the chunks extractAudio lists, uploads and returns for a video are
\* chunks of that video, whatever files of other videos the temporary
\* directory holds.
C23_OnlyOwnChunks ==
  \A r \in Runs :
    /\ \A i \in 1..Len(acq[r].audioChunks) : acq[r].audioChunks[i].video = acq[r].videoId
    /\ \A i \in 1..Len(acq[r].s3Keys) : acq[r].s3Keys[i].of = acq[r].videoId
    /\ \A i \in 1..Len(acq[r].returned) : acq[r].returned[i].of = acq[r].videoId

\* C24: when every run that has started is for the same video, a run none
\* of whose collaborators failed ends without an error: the other run's
\* pre-cleanup, local cleanup and bucket cleanup take nothing it needs.
C24_OverlapOnlyDuplicatesWork ==
  \A r \in Runs :
    (/\ acq[r].at = "done" /\ acq[r].videoId # None /\ ~acq[r].faulted
     /\ \A q \in Runs : acq[q].videoId \in {None, acq[r].videoId}) =>
      acq[r].error = None

\* C28: the step in which extractAudio is called with a URL that gives no
\* video id ends the call with 'Invalid video URL': no yt-dlp download, and
\* the temporary directory and the bucket are as they were.
C28_InvalidUrlRaisesAtOnce ==
  [][\A r \in Runs :
       (acq[r].at = "idle" /\ acq'[r].at # "idle" /\ videoIdOf(acq'[r].url) = None) =>
         /\ acq'[r].at = "done"
         /\ acq'[r].error = InvalidVideoUrl
         /\ acq'[r].downloads = 0
         /\ disk' = disk /\ objects' = objects]_vars

\* C29: when a run is about to download and every other run either ended
\* before this one started or has not started, the temporary directory
\* holds no file of the run's video and the bucket no object of it.
C29_NothingLeftOverAtDownload ==
  \A r \in Runs :
    (/\ acq[r].at = "download"
     /\ \A q \in Runs \ {r} : q \in acq[r].before \/ acq[q].at = "idle") =>
      /\ \A f \in disk : f.video # acq[r].videoId
      /\ \A o \in objects : o.video # acq[r].videoId

\* C30: when ffmpeg wrote no chunk file, extractAudio fails and has uploaded
\* no chunk; when it wrote exactly one, the list extractAudio returns holds
\* exactly that chunk.
C30_ZeroFailsOneSucceeds ==
  \A r \in Runs :
    /\ acq[r].produced = 0 => (acq[r].error = ExtractFailed /\ acq[r].s3Keys = <<>>)
    /\ (acq[r].produced = 1 /\ acq[r].returned # <<>>) =>
         acq[r].returned = <<RawObject(acq[r].videoId, LocalChunk(acq[r].videoId, 1))>>

\* C25: once a transcription call has failed with an error that is neither
\* a rate limit nor the timeout, it was the last call of the run: it is the
\* only such failure, the loop has been left by throwing, every call counted
\* for the chunk came before it, and no delay was taken after it.
C25_NonRetryableAbortsAtOnce ==
  attempts > sttRetryable =>
    /\ attempts = sttRetryable + 1
    /\ sttCalls = attempts
    /\ at \in {"cleanup", "done", "caller"}
    /\ threw /\ synth = Threw
    /\ ~wait.taken

\* C25 witness: the first call for the first of two chunks failed with such
\* an error and the run is back in fetchTranscript with nothing transcribed.
C25_Witness ==
  /\ at = "caller" /\ attempts = 1 /\ sttRetryable = 0 /\ sttCalls = 1
  /\ chunkPos = 1 /\ Len(preprocessedKeys) = 2
  /\ heard = <<>> /\ synth = Threw

\* C26: timeouts and rate limits use up the same attempts of a chunk: while
\* the loop is on a chunk every failure so far, of either kind, is counted
\* in attempts and at most two have happened; a chunk on which every call
\* failed in one of the two ways is left only by throwing after exactly 3
\* calls; and the count is back at 0 when the calls for a chunk begin.
C26_TimeoutCountsLikeRateLimit ==
  /\ sttCalls <= maxRetries
  /\ at = "transcribe" =>
       /\ sttTimeouts <= attempts /\ attempts < maxRetries
       /\ attempts = sttRetryable /\ sttCalls = attempts
  /\ (at # "transcribe" /\ sttCalls > 0 /\ sttRetryable = sttCalls) =>
       (attempts = maxRetries /\ sttCalls = maxRetries /\ threw)
  /\ at = "getChunk" => wait = NoWait /\ sttTimeouts = 0

\* C26 witness: the second chunk, after a first chunk that was transcribed,
\* has failed once with a timeout and once with a rate limit and is about
\* to be tried for the third time.
C26_Witness ==
  /\ at = "transcribe" /\ chunkPos = 2 /\ Len(fullTranscript) > 0
  /\ attempts = 2 /\ sttTimeouts = 1 /\ sttCalls = 2

\* C27: a wait is taken only after the first or the second failed attempt
\* of a chunk; it lasts the retry-after hint in seconds when the error
\* carried one, a hint of 0 included, and 2^a seconds when it carried none.
C27_RetryDelay ==
  /\ wait.taken =>
       /\ at = "transcribe" /\ attempts \in {1, 2}
       /\ wait.ms = IF wait.hint # NoHint THEN wait.hint * 1000
                                          ELSE (2 ^ attempts) * 1000
  /\ attempts >= maxRetries => ~wait.taken

\* C31: when extractAudio has failed and generateWhisperTranscript has thrown
\* that failure to its caller, the bucket holds none of the objects the
\* failed acquisition uploaded: no source media object and no chunk.
AcquisitionFailed ==
  at \in {"done", "caller"} /\ threw /\ s3Keys = <<>> /\ preprocessedKeys = <<>>

C31_FailedAcquisitionLeavesNoObject ==
  AcquisitionFailed => bucket = {}

\* C32: a run whose download ended with a file below the minimum size has
\* failed with an error and went no further: ffmpeg did not run on the file
\* and no chunk was uploaded.
C32_SmallDownloadRejected ==
  \A r \in Runs :
    acq[r].dlResult = "truncated" =>
      /\ acq[r].at \in {"extractFinally", "done"}
      /\ acq[r].error = ExtractFailed
      /\ acq[r].produced = -1
      /\ acq[r].s3Keys = <<>>

\* C33: every record of the store has a transcript with at least one
\* segment, and so has every transcript a call is about to hand to
\* Transcript.create, from the caption stage or from a synthesis run.
C33_NoEmptyTranscriptPersisted ==
  /\ \A i \in 1..Len(store) : Len(store[i].transcript) > 0
  /\ \A p \in Callers :
       pc[p] \in {"createCaption", "createWhisper"} => Len(local[p]) > 0

\* C33 witness: a call got an empty caption track, fell back to synthesis,
\* and wrote the one retained segment as the video's record.
C33_Witness ==
  \E p \in Callers :
    /\ GotTranscript(p) /\ {"emptyTrack", "whisper", "write"} \subseteq did[p]
    /\ Len(result[p]) = 1
    /\ DocsOf(arg[p].videoId) = <<Document(arg[p].videoId, result[p])>>

\* C34: the step in which a call ends with an error or with null leaves the
\* store as it is, and no earlier step of that call wrote a record.
C34_FailedCallWritesNothing ==
  [][\A p \in Callers :
       (pc[p] # "done" /\ pc'[p] = "done" /\ outcome'[p] \in {"error", "null"}) =>
         (store' = store /\ "write" \notin did'[p])]_vars

\* C34 witness: a call whose synthesis run transcribed a chunk and then
\* failed has ended with an error, and the store has no record of the video.
C34_Witness ==
  \E p \in Callers :
    /\ Finished(p) /\ outcome[p] = "error"
    /\ "speechToText" \in did[p]
    /\ DocsOf(arg[p].videoId) = <<>>

\* C35: when refineTranscript returned the text it was given, segment i of
\* the transcript the run returns carries the text of item i of
\* fullTranscript, for every i.
C35_ResliceIsIdentity ==
  (refined.outcome # None /\ refined.text = RawText(fullTranscript)) =>
    /\ Len(synth.transcript) = Len(fullTranscript)
    /\ \A i \in 1..Len(fullTranscript) : synth.transcript[i].text = fullTranscript[i].text

\* C36: the transcript a run returns has as many segments as fullTranscript,
\* each with the offset and the duration of the item at its position and a
\* text no longer than that item's, whatever the text-correction call gave.
C36_ResliceChangesOnlyText ==
  refined.outcome # None =>
    /\ Len(synth.transcript) = Len(fullTranscript)
    /\ \A i \in 1..Len(fullTranscript) :
         /\ synth.transcript[i].offset = fullTranscript[i].offset
         /\ synth.transcript[i].duration = fullTranscript[i].duration
         /\ Len(synth.transcript[i].text) <= Len(fullTranscript[i].text)

\* C36 witness: the corrected text was longer than the joined text, and the
\* run returned the segments of two chunks.
C36_Witness ==
  /\ at = "done" /\ refined.outcome = "longer"
  /\ Len(refined.text) > Len(RawText(fullTranscript))
  /\ Len(synth.transcript) = 4 /\ chunkPos = 2

\* C37: a transcription request is issued only when no earlier request of
\* the run is still in flight.
C37_OneRequestOutstanding ==
  [][(at = "transcribe" /\ sttCalls' = sttCalls + 1) => abandoned = 0]_vars

\* The step is a delete request of cleanupAudio.
DeleteRequest ==
  at = "cleanup" /\ (cleanupPos' # cleanupPos \/ cleanupAttempts' # cleanupAttempts)

\* C38: every delete request of cleanupAudio is the first, second or third
\* for its key; after it cleanupAudio is at the next key (the request
\* succeeded, or it was the third to fail) or at the same key with one more
\* failure counted and the bucket as it was; cleanupAudio ends after the
\* last key and not before; and no request changes what
\* generateWhisperTranscript returns or throws.
C38_CleanupNeverChangesTheOutcome ==
  [][DeleteRequest =>
       /\ cleanupAttempts < cleanupMaxRetries
       /\ \/ cleanupPos' = cleanupPos + 1 /\ cleanupAttempts' = 0
          \/ /\ cleanupPos' = cleanupPos /\ cleanupAttempts' = cleanupAttempts + 1
             /\ cleanupAttempts' < cleanupMaxRetries
             /\ bucket' = bucket
       /\ at' = IF cleanupPos' > Len(CleanupKeys(s3Keys, preprocessedKeys))
                  THEN "done" ELSE "cleanup"
       /\ synth' = synth /\ threw' = threw]_vars

\* C38 witness: the run returned its transcript although the three delete
\* requests for the first chunk failed and the chunk is still in the bucket.
C38_Witness ==
  /\ at = "done" /\ refined.outcome # None /\ ~synth.threw
  /\ Len(synth.transcript) > 0
  /\ RawKey(1) \in bucket /\ PreKey(1) \notin bucket

\* C39: fullTranscript and the running offset change only in the step of a
\* transcription call that succeeds; that step appends one item per retained
\* segment of the call to what was there, moves the offset forward, and
\* takes the loop off the chunk, so that no second call for the chunk
\* follows; a failed attempt changes neither.
C39_RetriesLeaveNoTrace ==
  [][/\ (fullTranscript' # fullTranscript \/ offset' # offset) => TranscribedOk
     /\ TranscribedOk =>
          /\ fullTranscript' = fullTranscript \o Pushed
          /\ Len(Pushed) = Len(Retained)
          /\ offset' > offset
          /\ at' # "transcribe"
     /\ (at = "transcribe" /\ attempts' = attempts + 1) =>
          (fullTranscript' = fullTranscript /\ offset' = offset)]_vars

\* C39 witness: the first chunk was transcribed by the third call, after two
\* failed attempts, and its two segments are in the transcript once.
C39_Witness ==
  /\ at = "getChunk" /\ chunkPos = 2
  /\ attempts = 2 /\ sttCalls = 3
  /\ Len(fullTranscript) = 2 /\ offset = SegYo.end

\* The step is a caption call of caller p that resolved with an empty track.
EmptyTrackReturned(p) ==
  pc[p] = "caption" /\ "emptyTrack" \notin did[p] /\ "emptyTrack" \in did'[p]

\* C40: a caption call that resolves with an empty track, for the preferred
\* language or for a fallback language, is the last caption call of the
\* call: control goes to the synthesis fallback, or the call returns null
\* where synthesis is skipped; the store is not written in that step, and
\* the call never reaches the caption stage's Transcript.create.
C40_EmptyTrackEndsTheSearch ==
  [][\A p \in Callers :
       /\ EmptyTrackReturned(p) =>
            /\ langIdx[p] \in 0..Len(fallbackLangs)
            /\ store' = store
            /\ IF SkipSynthesis
                 THEN pc'[p] = "done" /\ outcome'[p] = "null"
                 ELSE pc'[p] = "whisper"
       /\ "emptyTrack" \in did[p] =>
            /\ pc'[p] \notin {"caption", "createCaption", "rereadCaption"}
            /\ "captionTrack" \notin did'[p]]_vars

\* C40 witness: a call got an empty track, went through synthesis without
\* a caption record being written, and ended.
C40_Witness ==
  \E p \in Callers :
    /\ Finished(p) /\ outcome[p] = "error"
    /\ {"emptyTrack", "whisper"} \subseteq did[p]
    /\ "write" \notin did[p] /\ DocsOf(arg[p].videoId) = <<>>

====
